---- MODULE Spec2Model ----
(***************************************************************************)
(* Model of the HVAC climate pipeline transform engine                     *)
(* (scripts/ingest_transform.py): raw JSONL loading, bronze normalisation, *)
(* the indoor/outdoor temporal join with gap classification, the comfort   *)
(* flags and the daily aggregation.                                        *)
(*                                                                         *)
(* Time is counted in whole minutes since midnight of day 0.  A nullable   *)
(* numeric cell is the empty tuple (NaN) or a tuple holding the number; a  *)
(* cell produced by an aggregation with 'mean' is the pair <<sum, count>>  *)
(* so that comparisons against thresholds stay exact.                      *)
(***************************************************************************)
EXTENDS Integers, Sequences, FiniteSets, TLC

VARIABLES
    pc,                 \* which stage of the engine has run
    indoor_files,       \* raw indoor files matched by the glob: Seq(Seq(line))
    outdoor_files,      \* raw outdoor files matched by the glob
    raw_indoor,         \* DataFrame returned by load_raw_indoor
    raw_outdoor,        \* DataFrame returned by load_raw_outdoor
    bronze_indoor,      \* DataFrame returned by transform_to_bronze(.., "indoor")
    bronze_outdoor,     \* DataFrame returned by transform_to_bronze(.., "outdoor")
    outdoor_resampled,  \* the 5-minute outdoor grid built inside the join
    comfort_df,         \* result of join_and_compute_comfort
    daily_metrics,      \* result of compute_daily_metrics
    log,                \* lines printed so far (only warnings are recorded)
    clock,              \* wall clock read by datetime.now(), in seconds
    fs,                 \* the Parquet files under base_path: path, rows, writer
    raw_dir,            \* the JSONL files under base_path/raw, per stream
    run,                \* the invocations of run_pipeline_for_day: locals, position
    dag,                \* the orchestrated daily run: its tasks, their tries
    api                 \* the call the query service answered last, with its answer

vars == <<pc, indoor_files, outdoor_files, raw_indoor, raw_outdoor,
          bronze_indoor, bronze_outdoor, outdoor_resampled, comfort_df,
          daily_metrics, log, clock, fs, raw_dir, run, dag, api>>

----------------------------------------------------------------------------
(* Program constants *)

OVERCOOLING_INDOOR_THRESHOLD == 21
OVERCOOLING_OUTDOOR_THRESHOLD == 25
STALE_AIR_CO2_THRESHOLD == 1000
\* resample('5min')
FreqMin == 5
\* ffill(limit=3)
FfillLimit == 3
\* tolerance=pd.Timedelta('15min')
ToleranceMin == 15
\* minutes per calendar day, used by .dt.date
MinutesPerDay == 1440

GAP_WARNING == "Warning: Some outdoor data is missing for >15 minutes and will propagate as NaN."
EMPTY_WARNING == "Warning: Empty input data"

\* base_path/raw without any file
NoRawFiles == [indoor |-> <<>>, outdoor |-> <<>>]
\* no orchestrated run is scheduled; no call has been answered
NoDag == <<>>
NoRequests == <<>>

----------------------------------------------------------------------------
(* Nullable cells *)

NaN == <<>>
Num(v) == <<v>>
isna(c) == c = NaN
notna(c) == c # NaN
\* null of the string column data_quality after a join without match
QNaN == "NaN"

\* c < k and c > k for a cell c = <<v>> or <<sum, count>>; comparisons with
\* NaN are False, as in pandas
CellSum(c) == c[1]
CellCount(c) == IF Len(c) = 2 THEN c[2] ELSE 1
CellLt(c, k) == notna(c) /\ CellSum(c) < k * CellCount(c)
CellGt(c, k) == notna(c) /\ CellSum(c) > k * CellCount(c)

SetMax(S) == CHOOSE x \in S : \A y \in S : y <= x
SetMin(S) == CHOOSE x \in S : \A y \in S : x <= y

RECURSIVE SumOver(_, _)
SumOver(S, f) ==
    IF S = {} THEN 0
    ELSE LET x == CHOOSE y \in S : TRUE IN f[x] + SumOver(S \ {x}, f)

Range(s) == {s[i] : i \in DOMAIN s}

----------------------------------------------------------------------------
(* Identifiers of buildings and rooms, in their sort order *)

BuildingIds == <<"building_A">>
RoomIds == <<"office_1", "office_2">>
IndexOf(seq, x) == CHOOSE i \in DOMAIN seq : seq[i] = x

\* lexicographic order of the pivot index (ts_utc, building_id, room_id)
KeyLeq(k1, k2) ==
    \/ k1[1] < k2[1]
    \/ /\ k1[1] = k2[1]
       /\ \/ IndexOf(BuildingIds, k1[2]) < IndexOf(BuildingIds, k2[2])
          \/ /\ k1[2] = k2[2]
             /\ IndexOf(RoomIds, k1[3]) <= IndexOf(RoomIds, k2[3])

RECURSIVE SortKeys(_)
SortKeys(S) ==
    IF S = {} THEN <<>>
    ELSE LET m == CHOOSE x \in S : \A y \in S : KeyLeq(x, y)
         IN <<m>> \o SortKeys(S \ {m})

----------------------------------------------------------------------------
(* join_and_compute_comfort: pivot of the indoor events *)

SensorColumn(t) ==
    CASE t = "temp" -> "indoor_temp_c"
      [] t = "humidity" -> "indoor_rel_humidity_pct"
      [] t = "co2" -> "indoor_co2_ppm"
      [] t = "voc" -> "indoor_voc_ppb"
      [] OTHER -> t

\* rows of group (key, sensor type) that carry a value
GroupRows(df, key, t) ==
    {i \in DOMAIN df : /\ <<df[i].ts_utc, df[i].building_id, df[i].room_id>> = key
                       /\ df[i].sensor_type = t
                       /\ notna(df[i].value)}

\* aggfunc='mean' over the group, NaN when the group has no value
MeanCell(df, key, t) ==
    LET g == GroupRows(df, key, t)
    IN IF g = {} THEN NaN
       ELSE <<SumOver(g, [i \in g |-> df[i].value[1]]), Cardinality(g)>>

\* pivot_table(index=[ts_utc, building_id, room_id], columns=sensor_type,
\* values=value, aggfunc='mean'): groups whose mean is NaN are dropped, so a
\* key or a column exists only if one of its groups carries a value
PivotKeys(df) ==
    {<<df[i].ts_utc, df[i].building_id, df[i].room_id>> :
        i \in {j \in DOMAIN df : notna(df[j].value)}}

PivotColumns(df) ==
    {SensorColumn(df[i].sensor_type) : i \in {j \in DOMAIN df : notna(df[j].value)}}

PivotRow(df, key) ==
    [ts_utc |-> key[1], building_id |-> key[2], room_id |-> key[3],
     indoor_temp_c |-> MeanCell(df, key, "temp"),
     indoor_rel_humidity_pct |-> MeanCell(df, key, "humidity"),
     indoor_co2_ppm |-> MeanCell(df, key, "co2"),
     indoor_voc_ppb |-> MeanCell(df, key, "voc")]

indoor_pivot(df) ==
    LET ks == SortKeys(PivotKeys(df))
    IN [i \in 1..Len(ks) |-> PivotRow(df, ks[i])]

----------------------------------------------------------------------------
(* join_and_compute_comfort: resampling of the outdoor readings *)

IndexValues(df) == {df[i].ts_utc : i \in DOMAIN df}
HasDuplicateIndex(df) ==
    \E i, j \in DOMAIN df : i # j /\ df[i].ts_utc = df[j].ts_utc

\* left edge of the 5-minute bin that holds t
FloorGrid(t) == (t \div FreqMin) * FreqMin

\* labels of the resampled index: every bin from the one holding the first
\* reading to the one holding the last reading
res_index(df) ==
    LET first == FloorGrid(SetMin(IndexValues(df)))
        last == FloorGrid(SetMax(IndexValues(df)))
    IN [k \in 1..(((last - first) \div FreqMin) + 1) |-> first + (k - 1) * FreqMin]

\* the upsampling shortcut of the resampler: when the readings themselves are
\* spaced by exactly the target frequency (a frequency can be inferred from
\* three or more of them) they are kept as they are and only relabelled
EqualSampling(df) ==
    /\ Len(df) >= 3
    /\ ~HasDuplicateIndex(df)
    /\ \A t \in IndexValues(df) :
          t = SetMin(IndexValues(df)) \/ (t - FreqMin) \in IndexValues(df)

\* the first reading stands for every instant
ReadingAt_first(df, t) == df[1]

ReadingAt(df, t) == df[CHOOSE i \in DOMAIN df : df[i].ts_utc = t]

\* set_index('ts_utc').resample('5min').asfreq(): one row per grid label; a
\* label without a reading at exactly that instant gets NaN in every column
asfreq(df) ==
    LET idx == res_index(df)
        first == SetMin(IndexValues(df))
    IN [k \in DOMAIN idx |->
          IF EqualSampling(df)
          THEN LET r == ReadingAt(df, first + (k - 1) * FreqMin)
               IN [ts_utc |-> idx[k], temp_c |-> r.temp_c,
                   rel_humidity_pct |-> r.rel_humidity_pct]
          ELSE IF idx[k] \in IndexValues(df)
          THEN LET r == ReadingAt(df, idx[k])
               IN [ts_utc |-> idx[k], temp_c |-> r.temp_c,
                   rel_humidity_pct |-> r.rel_humidity_pct]
          ELSE [ts_utc |-> idx[k], temp_c |-> NaN, rel_humidity_pct |-> NaN]]

\* data_quality = 'actual', then 'missing' where temp_c or rel_humidity_pct
\* is NaN
mask_missing(row) == isna(row.temp_c) \/ isna(row.rel_humidity_pct)

TagQuality(rows) ==
    [k \in DOMAIN rows |->
        [ts_utc |-> rows[k].ts_utc, temp_c |-> rows[k].temp_c,
         rel_humidity_pct |-> rows[k].rel_humidity_pct,
         data_quality |-> IF mask_missing(rows[k]) THEN "missing" ELSE "actual"]]

\* the fill without its limit: ffill()
FfillSource_unlimited(col, k) ==
    IF notna(col[k]) THEN k
    ELSE LET prior == {j \in 1..(k - 1) : notna(col[j])}
         IN IF prior # {} THEN SetMax(prior) ELSE 0

\* position of the value ffill(limit=3) puts at position k of a column: k
\* itself when it holds a value, the last earlier position holding a value
\* when that one is at most FfillLimit positions back, 0 (stays NaN) otherwise
FfillSource(col, k) ==
    IF notna(col[k]) THEN k
    ELSE LET prior == {j \in 1..(k - 1) : notna(col[j])}
         IN IF prior # {} /\ k - SetMax(prior) <= FfillLimit
            THEN SetMax(prior) ELSE 0

FfillCell(col, k) ==
    IF FfillSource(col, k) = 0 THEN NaN ELSE col[FfillSource(col, k)]

\* DataFrame.ffill(limit=3): every column is filled on its own
ffill(rows) ==
    LET temp == [k \in DOMAIN rows |-> rows[k].temp_c]
        hum == [k \in DOMAIN rows |-> rows[k].rel_humidity_pct]
    IN [k \in DOMAIN rows |->
          [ts_utc |-> rows[k].ts_utc,
           temp_c |-> FfillCell(temp, k),
           rel_humidity_pct |-> FfillCell(hum, k),
           data_quality |-> rows[k].data_quality]]

mask_ffilled(row) ==
    row.data_quality = "missing"
    /\ (notna(row.temp_c) \/ notna(row.rel_humidity_pct))

TagFfilled(rows) ==
    [k \in DOMAIN rows |->
        [rows[k] EXCEPT !.data_quality =
            IF mask_ffilled(rows[k]) THEN "ffilled" ELSE @]]

\* lines 163-174
resample_outdoor(df) == TagFfilled(ffill(TagQuality(asfreq(df))))

\* the warning printed for every slot that remains missing
gap_warnings_per_slot(grid) ==
    SelectSeq([k \in DOMAIN grid |-> IF grid[k].data_quality = "missing"
                                     THEN GAP_WARNING ELSE ""],
              LAMBDA w : w = GAP_WARNING)

\* lines 176-177: one print guarded by .any()
gap_warnings(grid) ==
    IF \E k \in DOMAIN grid : grid[k].data_quality = "missing"
    THEN <<GAP_WARNING>> ELSE <<>>

----------------------------------------------------------------------------
(* join_and_compute_comfort: merge_asof and the flags *)

\* last grid row at or before t, within the tolerance (0: none)
BackwardMatch(grid, t) ==
    LET c == {k \in DOMAIN grid : grid[k].ts_utc <= t}
    IN IF c # {} /\ t - grid[SetMax(c)].ts_utc <= ToleranceMin
       THEN SetMax(c) ELSE 0

\* first grid row at or after t, within the tolerance (0: none)
ForwardMatch(grid, t) ==
    LET c == {k \in DOMAIN grid : grid[k].ts_utc >= t}
    IN IF c # {} /\ grid[SetMin(c)].ts_utc - t <= ToleranceMin
       THEN SetMin(c) ELSE 0

\* the join with direction='backward'
NearestMatch_backward(grid, t) == BackwardMatch(grid, t)

\* direction='nearest': the closer of the two, the earlier one on a tie
NearestMatch(grid, t) ==
    LET b == BackwardMatch(grid, t)
        f == ForwardMatch(grid, t)
    IN IF b # 0 /\ f # 0
       THEN (IF t - grid[b].ts_utc <= grid[f].ts_utc - t THEN b ELSE f)
       ELSE IF b # 0 THEN b ELSE f

\* the flag with the indoor bound included: <= 21
overcooled_flag_inclusive(indoor_temp_c, outdoor_temp_c) ==
    /\ notna(indoor_temp_c)
    /\ CellSum(indoor_temp_c) <= OVERCOOLING_INDOOR_THRESHOLD * CellCount(indoor_temp_c)
    /\ CellGt(outdoor_temp_c, OVERCOOLING_OUTDOOR_THRESHOLD)

overcooled_flag(indoor_temp_c, outdoor_temp_c) ==
    CellLt(indoor_temp_c, OVERCOOLING_INDOOR_THRESHOLD)
    /\ CellGt(outdoor_temp_c, OVERCOOLING_OUTDOOR_THRESHOLD)

\* the flag with the bound included: >= 1000
stale_air_flag_inclusive(indoor_co2_ppm) ==
    /\ notna(indoor_co2_ppm)
    /\ CellSum(indoor_co2_ppm) >= STALE_AIR_CO2_THRESHOLD * CellCount(indoor_co2_ppm)

stale_air_flag(indoor_co2_ppm) ==
    CellGt(indoor_co2_ppm, STALE_AIR_CO2_THRESHOLD)

\* .dt.date
DateOf(ts) == ts \div MinutesPerDay

\* one row of merge_asof(...) with the renamed outdoor columns, the two
\* flags and the date
ComfortRow(p, grid) ==
    LET m == NearestMatch(grid, p.ts_utc)
        otemp == IF m = 0 THEN NaN ELSE grid[m].temp_c
        ohum == IF m = 0 THEN NaN ELSE grid[m].rel_humidity_pct
    IN [ts_utc |-> p.ts_utc, building_id |-> p.building_id, room_id |-> p.room_id,
        indoor_temp_c |-> p.indoor_temp_c,
        indoor_rel_humidity_pct |-> p.indoor_rel_humidity_pct,
        indoor_co2_ppm |-> p.indoor_co2_ppm,
        indoor_voc_ppb |-> p.indoor_voc_ppb,
        outdoor_temp_c |-> otemp,
        outdoor_rel_humidity_pct |-> ohum,
        data_quality |-> IF m = 0 THEN QNaN ELSE grid[m].data_quality,
        overcooled_flag |-> overcooled_flag(p.indoor_temp_c, otemp),
        stale_air_flag |-> stale_air_flag(p.indoor_co2_ppm),
        date |-> DateOf(p.ts_utc)]

merge_asof(pivot, grid) == [i \in DOMAIN pivot |-> ComfortRow(pivot[i], grid)]

KeyColumns == {"ts_utc", "building_id", "room_id"}
JoinedColumns ==
    {"outdoor_temp_c", "outdoor_rel_humidity_pct", "data_quality",
     "overcooled_flag", "stale_air_flag", "date"}

EmptyFrame == [status |-> "ok", columns |-> {}, rows |-> <<>>]
Raised(e) == [status |-> e, columns |-> {}, rows |-> <<>>]

\* the guard against empty inputs left out: the pivot of an empty frame has
\* no sensor column
join_frame_unguarded(indoor_df, outdoor_df) ==
    IF outdoor_df # <<>> /\ HasDuplicateIndex(outdoor_df) THEN Raised("ValueError")
    ELSE IF \/ indoor_df = <<>>
            \/ outdoor_df = <<>>
            \/ ~({"indoor_temp_c", "indoor_co2_ppm"} \subseteq PivotColumns(indoor_df))
    THEN Raised("KeyError")
    ELSE [status |-> "ok",
          columns |-> KeyColumns \cup PivotColumns(indoor_df) \cup JoinedColumns,
          rows |-> merge_asof(indoor_pivot(indoor_df), resample_outdoor(outdoor_df))]

\* the value returned by join_and_compute_comfort, or the exception it ends
\* with: the resampler refuses an outdoor index with duplicate labels, and
\* the flag expressions need the columns indoor_temp_c and indoor_co2_ppm
join_frame(indoor_df, outdoor_df) ==
    IF indoor_df = <<>> \/ outdoor_df = <<>> THEN EmptyFrame
    ELSE IF HasDuplicateIndex(outdoor_df) THEN Raised("ValueError")
    ELSE IF ~({"indoor_temp_c", "indoor_co2_ppm"} \subseteq PivotColumns(indoor_df))
    THEN Raised("KeyError")
    ELSE [status |-> "ok",
          columns |-> KeyColumns \cup PivotColumns(indoor_df) \cup JoinedColumns,
          rows |-> merge_asof(indoor_pivot(indoor_df), resample_outdoor(outdoor_df))]

join_grid(indoor_df, outdoor_df) ==
    IF indoor_df = <<>> \/ outdoor_df = <<>> \/ HasDuplicateIndex(outdoor_df)
    THEN <<>>
    ELSE resample_outdoor(outdoor_df)

join_log(indoor_df, outdoor_df) ==
    IF indoor_df = <<>> \/ outdoor_df = <<>> THEN <<EMPTY_WARNING>>
    ELSE gap_warnings(join_grid(indoor_df, outdoor_df))

join_and_compute_comfort ==
    /\ pc = "bronze"
    /\ comfort_df' = join_frame(bronze_indoor, bronze_outdoor)
    /\ outdoor_resampled' = join_grid(bronze_indoor, bronze_outdoor)
    /\ log' = log \o join_log(bronze_indoor, bronze_outdoor)
    /\ pc' = "silver"
    /\ UNCHANGED <<indoor_files, outdoor_files, raw_indoor, raw_outdoor,
                   bronze_indoor, bronze_outdoor, daily_metrics, clock, fs, raw_dir, run,
                   dag, api>>

----------------------------------------------------------------------------
(* Bounded inputs of the join *)

\* number of indoor events and of outdoor readings for the checks of the
\* join, and number of outdoor readings for the checks of the outdoor grid
MaxIndoor == 3
MaxOutdoor == 2
MaxGridReadings == 3

\* indoor timestamps: on a slot, off the grid nearer to the later slot, and
\* late enough to be out of reach of the last slot
IndoorTimes == <<0, 18, 40>>
IndoorReadings == <<<<"temp", 20>>, <<"temp", 21>>, <<"co2", 1000>>, <<"co2", 1001>>>>
\* outdoor timestamps on the grid: 5, 10, 20 and 25 minutes apart
OutdoorTimes == <<0, 15, 20, 25>>
\* outdoor timestamps on and off the grid: spaced by the grid step, and 25
\* minutes apart twice in a row
OutdoorGridTimes == <<0, 1, 5, 6, 11, 25, 50>>
OutdoorPayloads == <<<<Num(26), Num(50)>>, <<Num(25), Num(60)>>, <<NaN, Num(55)>>>>

\* nondecreasing code sequences of length at most n over 0..(a-1): one
\* representative of every multiset of rows (the join sorts both inputs)
SortedCodes(n, a) ==
    UNION {{c \in [1..m -> 0..(a - 1)] : \A i \in 1..(m - 1) : c[i] <= c[i + 1]} :
              m \in 0..n}

BronzeIndoorRow(code, id) ==
    LET r == IndoorReadings[(code % Len(IndoorReadings)) + 1]
    IN [event_id |-> id,
        ts_utc |-> IndoorTimes[(code \div Len(IndoorReadings)) + 1],
        building_id |-> BuildingIds[1], room_id |-> RoomIds[1],
        sensor_type |-> r[1], value |-> Num(r[2]),
        unit |-> IF r[1] = "temp" THEN "C" ELSE "ppm",
        ingestion_timestamp |-> 0]

IndoorFrames(n) ==
    {[i \in DOMAIN c |-> BronzeIndoorRow(c[i], i)] :
        c \in SortedCodes(n, Len(IndoorTimes) * Len(IndoorReadings))}

\* reading number code: timestamp and payload
BronzeOutdoorRow(code, times, npay) ==
    LET pay == OutdoorPayloads[(code % npay) + 1]
    IN [ts_utc |-> times[(code \div npay) + 1],
        latitude |-> Num(59), longitude |-> Num(24),
        temp_c |-> pay[1], rel_humidity_pct |-> pay[2],
        wind_speed_ms |-> Num(4), source |-> "synthetic_generator_v1",
        ingestion_timestamp |-> 0]

OutdoorFrames(n, times, npay) ==
    {[i \in DOMAIN c |-> BronzeOutdoorRow(c[i], times, npay)] :
        c \in SortedCodes(n, Len(times) * npay)}

InitIdle ==
    /\ indoor_files = <<>>
    /\ outdoor_files = <<>>
    /\ raw_indoor = <<>>
    /\ raw_outdoor = <<>>
    /\ outdoor_resampled = <<>>
    /\ comfort_df = EmptyFrame
    /\ daily_metrics = EmptyFrame
    /\ log = <<>>
    /\ clock = 0
    /\ fs = {}
    /\ raw_dir = NoRawFiles
    /\ run = <<>>
    /\ dag = NoDag
    /\ api = NoRequests

\* the join called on bronze frames: many indoor shapes, complete outdoor
\* readings on the grid
InitAlign ==
    /\ InitIdle
    /\ pc = "bronze"
    /\ bronze_indoor \in IndoorFrames(MaxIndoor)
    /\ bronze_outdoor \in OutdoorFrames(MaxOutdoor, OutdoorTimes, 2)

\* one indoor row off the grid with a temperature and a CO2 event
FixedIndoor ==
    <<BronzeIndoorRow(Len(IndoorReadings), 1),
      BronzeIndoorRow(Len(IndoorReadings) + 3, 2)>>

\* the join called on many outdoor shapes (readings on and off the grid,
\* with and without a temperature), one indoor row
InitGrid ==
    /\ InitIdle
    /\ pc = "bronze"
    /\ bronze_indoor = FixedIndoor
    /\ bronze_outdoor \in OutdoorFrames(MaxGridReadings, OutdoorGridTimes, 3)

NextAlign == join_and_compute_comfort

SpecAlign == InitAlign /\ [][NextAlign]_vars
SpecGrid == InitGrid /\ [][NextAlign]_vars

----------------------------------------------------------------------------
(* Properties of the join *)

Abs(x) == IF x < 0 THEN 0 - x ELSE x
Joined == pc = "silver" /\ comfort_df.status = "ok"
ComfortRows == Range(comfort_df.rows)
GridSlots == DOMAIN outdoor_resampled
SlotWithin(r, k) == Abs(outdoor_resampled[k].ts_utc - r.ts_utc) <= 15

\* C1: every ComfortRecord has overcooled_flag true exactly when its indoor
\* temperature is below 21 and its outdoor temperature is above 25, both
\* strictly; a null indoor or outdoor temperature gives false.
C1_OvercooledFlag ==
    Joined =>
        \A r \in ComfortRows :
            r.overcooled_flag =
                (/\ r.indoor_temp_c # <<>>
                 /\ r.outdoor_temp_c # <<>>
                 /\ r.indoor_temp_c[1] < 21 * r.indoor_temp_c[2]
                 /\ r.outdoor_temp_c[1] > 25)

\* a run with a flagged record and a record that misses the flag only by a
\* bound (21 indoors, or 25 outdoors) or by the absent outdoor temperature
C1_Witness ==
    /\ Joined
    /\ \E r \in ComfortRows : r.overcooled_flag
    /\ \E r \in ComfortRows :
          \/ r.indoor_temp_c = <<21, 1>> /\ r.outdoor_temp_c = <<26>> /\ ~r.overcooled_flag
          \/ r.indoor_temp_c = <<20, 1>> /\ r.outdoor_temp_c = <<25>> /\ ~r.overcooled_flag
          \/ r.indoor_temp_c = <<20, 1>> /\ r.outdoor_temp_c = <<>> /\ ~r.overcooled_flag

\* C2: every ComfortRecord has stale_air_flag true exactly when its indoor CO2
\* is above 1000, strictly; a null CO2 gives false.
C2_StaleAirFlag ==
    Joined =>
        \A r \in ComfortRows :
            r.stale_air_flag =
                (/\ r.indoor_co2_ppm # <<>>
                 /\ r.indoor_co2_ppm[1] > 1000 * r.indoor_co2_ppm[2])

\* a run with a flagged record, a record at exactly 1000 ppm and a record
\* without CO2 value
C2_Witness ==
    /\ Joined
    /\ \E r \in ComfortRows : r.stale_air_flag
    /\ \E r \in ComfortRows : r.indoor_co2_ppm = <<1000, 1>> /\ ~r.stale_air_flag
    /\ \E r \in ComfortRows : r.indoor_co2_ppm = <<>> /\ ~r.stale_air_flag

\* C3: a ComfortRecord whose indoor timestamp has a grid slot within 15
\* minutes carries the temperature, humidity and quality tag of a slot
\* nearest in time; a record without such a slot carries no outdoor value.
C3_NearestSlot ==
    Joined =>
        \A r \in ComfortRows :
            IF \E k \in GridSlots : SlotWithin(r, k)
            THEN \E k \in GridSlots :
                    /\ \A j \in GridSlots :
                          Abs(outdoor_resampled[k].ts_utc - r.ts_utc)
                             <= Abs(outdoor_resampled[j].ts_utc - r.ts_utc)
                    /\ r.outdoor_temp_c = outdoor_resampled[k].temp_c
                    /\ r.outdoor_rel_humidity_pct = outdoor_resampled[k].rel_humidity_pct
                    /\ r.data_quality = outdoor_resampled[k].data_quality
            ELSE /\ r.outdoor_temp_c = <<>>
                 /\ r.outdoor_rel_humidity_pct = <<>>
                 /\ r.data_quality \notin {"actual", "ffilled", "missing"}

\* an indoor row off the grid whose later neighbour slot is the nearer one and
\* differs from the earlier neighbour
C3_Witness ==
    /\ Joined
    /\ \E r \in ComfortRows : \E k \in GridSlots :
          /\ k + 1 \in GridSlots
          /\ outdoor_resampled[k].ts_utc < r.ts_utc
          /\ outdoor_resampled[k + 1].ts_utc - r.ts_utc < r.ts_utc - outdoor_resampled[k].ts_utc
          /\ outdoor_resampled[k].temp_c # outdoor_resampled[k + 1].temp_c
          /\ r.outdoor_temp_c = outdoor_resampled[k + 1].temp_c

\* C4: a ComfortRecord without any grid slot within 15 minutes has null outdoor
\* temperature and humidity and the quality tag missing, so that every quality
\* tag is one of actual, forward_filled (written 'ffilled'), missing.
C4_QualityTag ==
    Joined =>
        \A r \in ComfortRows :
            /\ r.data_quality \in {"actual", "ffilled", "missing"}
            /\ (~\E k \in GridSlots : SlotWithin(r, k)) =>
                  /\ r.outdoor_temp_c = <<>>
                  /\ r.outdoor_rel_humidity_pct = <<>>
                  /\ r.data_quality = "missing"

\* readings of the outdoor input, as the grid is meant to reflect them
ReadingExistsAt(t) == \E i \in DOMAIN bronze_outdoor : bronze_outdoor[i].ts_utc = t
Resampled == pc = "silver" /\ outdoor_resampled # <<>>

\* C5: a grid slot is tagged actual iff a reading exists at exactly that slot,
\* forward_filled iff none exists there and one of the 3 preceding slots is
\* actual, and missing otherwise.
C5_SlotTags ==
    Resampled =>
        \A k \in GridSlots :
            LET q == outdoor_resampled[k].data_quality
                here == ReadingExistsAt(outdoor_resampled[k].ts_utc)
                before == \E j \in GridSlots :
                             /\ j < k
                             /\ k - j <= 3
                             /\ outdoor_resampled[j].data_quality = "actual"
            IN /\ (q = "actual") = here
               /\ (q = "ffilled") = (~here /\ before)
               /\ (q = "missing") = (~here /\ ~before)

\* C6: a slot tagged forward_filled carries the temperature and the humidity
\* of the most recent earlier actual slot, which is at most 3 positions before
\* it; no slot is tagged forward_filled without a value copied into it.
C6_FilledFromPrior ==
    Resampled =>
        \A k \in GridSlots :
            outdoor_resampled[k].data_quality = "ffilled" =>
                \E j \in GridSlots :
                    /\ j < k
                    /\ k - j <= 3
                    /\ outdoor_resampled[j].data_quality = "actual"
                    /\ \A i \in GridSlots :
                          (j < i /\ i < k) => outdoor_resampled[i].data_quality # "actual"
                    /\ outdoor_resampled[k].temp_c = outdoor_resampled[j].temp_c
                    /\ outdoor_resampled[k].rel_humidity_pct
                          = outdoor_resampled[j].rel_humidity_pct

\* two readings with no reading between them
ConsecutiveReadings(a, b) ==
    /\ ReadingExistsAt(a)
    /\ ReadingExistsAt(b)
    /\ a < b
    /\ ~\E i \in DOMAIN bronze_outdoor :
          a < bronze_outdoor[i].ts_utc /\ bronze_outdoor[i].ts_utc < b

ReadingTimes == {bronze_outdoor[i].ts_utc : i \in DOMAIN bronze_outdoor}
JoinedMissing(r) ==
    /\ r.data_quality = "missing"
    /\ r.outdoor_temp_c = <<>>
    /\ r.outdoor_rel_humidity_pct = <<>>

\* C7: with two consecutive outdoor readings 20 minutes apart, an indoor row
\* whose timestamp lies between them is joined with quality missing and null
\* outdoor temperature and humidity.
C7_TwentyMinuteGap ==
    Joined =>
        \A a \in ReadingTimes : \A b \in ReadingTimes :
            (ConsecutiveReadings(a, b) /\ b - a = 20) =>
                \A r \in ComfortRows :
                    (a < r.ts_utc /\ r.ts_utc < b) => JoinedMissing(r)

\* the grid slot nearest to t, the earlier one on a tie
NearestSlotTime(t) ==
    IF (t % 5) * 2 <= 5 THEN t - (t % 5) ELSE t - (t % 5) + 5

\* C7 as amended: with two consecutive outdoor readings on the grid, an indoor
\* row whose nearest grid slot lies more than 15 minutes after the earlier
\* reading and before the later one is joined with quality missing and null
\* outdoor temperature and humidity (the readings are then at least 25
\* minutes apart).
C7_GapBeyondFill ==
    Joined =>
        \A a \in ReadingTimes : \A b \in ReadingTimes :
            (ConsecutiveReadings(a, b) /\ a % 5 = 0 /\ b % 5 = 0) =>
                \A r \in ComfortRows :
                    (/\ NearestSlotTime(r.ts_utc) > a + 15
                     /\ NearestSlotTime(r.ts_utc) < b) => JoinedMissing(r)

\* readings 25 minutes apart and an indoor row next to the one slot between
\* them that the fill does not reach
C7_Witness ==
    /\ Joined
    /\ \E a \in ReadingTimes : \E r \in ComfortRows :
          /\ ConsecutiveReadings(a, a + 25)
          /\ a % 5 = 0
          /\ NearestSlotTime(r.ts_utc) = a + 20
          /\ r.ts_utc # a + 20
          /\ JoinedMissing(r)

\* maximal runs of slots still tagged missing: counted by their first slot
GapStarts ==
    {k \in GridSlots :
        /\ outdoor_resampled[k].data_quality = "missing"
        /\ (k = 1 \/ outdoor_resampled[k - 1].data_quality # "missing")}
GapWarningsLogged == Cardinality({i \in DOMAIN log : log[i] = GAP_WARNING})

\* C8: one run of the Aligner emits the gap warning exactly once for each
\* contiguous run of slots that remain missing after the fill.
C8_WarningPerGap ==
    pc = "silver" => GapWarningsLogged = Cardinality(GapStarts)

\* C8 as amended: one run of the Aligner emits the gap warning exactly once
\* when at least one slot remains missing after the fill, however many
\* separate gaps there are, and not at all when no slot remains missing.
C8_WarningOncePerRun ==
    pc = "silver" =>
        GapWarningsLogged = (IF GapStarts = {} THEN 0 ELSE 1)

\* a grid with two separate gaps and a single warning in the log
C8_Witness ==
    /\ pc = "silver"
    /\ Cardinality(GapStarts) = 2
    /\ GapWarningsLogged = 1

----------------------------------------------------------------------------
(* load_raw_indoor, load_raw_outdoor and transform_to_bronze *)

\* A line of a JSONL file: json tells whether json.loads accepts it, obj is
\* the object it parses to.  An ISO-8601 timestamp string is the triple
\* <<day, hour, minute>>.

\* the loop that gives up the file at its first malformed line
RECURSIVE ParseLines_abort(_)
ParseLines_abort(file) ==
    IF file = <<>> THEN <<>>
    ELSE IF Head(file).json
         THEN <<Head(file).obj>> \o ParseLines_abort(Tail(file))
         ELSE <<>>

\* the loop over the lines of one file: a line that does not parse is
\* skipped, every other line is appended
RECURSIVE ParseLines(_)
ParseLines(file) ==
    IF file = <<>> THEN <<>>
    ELSE IF Head(file).json
         THEN <<Head(file).obj>> \o ParseLines(Tail(file))
         ELSE ParseLines(Tail(file))

\* the loop over the matched files, in sorted order; no file gives the empty
\* frame
RECURSIVE ReadFiles(_)
ReadFiles(files) ==
    IF files = <<>> THEN <<>>
    ELSE ParseLines(Head(files)) \o ReadFiles(Tail(files))

load_raw_indoor ==
    /\ pc = "start"
    /\ raw_indoor' = ReadFiles(indoor_files)
    /\ pc' = "indoor_raw"
    /\ UNCHANGED <<indoor_files, outdoor_files, raw_outdoor, bronze_indoor,
                   bronze_outdoor, outdoor_resampled, comfort_df,
                   daily_metrics, log, clock, fs, raw_dir, run,
                   dag, api>>

load_raw_outdoor ==
    /\ pc = "indoor_raw"
    /\ raw_outdoor' = ReadFiles(outdoor_files)
    /\ pc' = "raw"
    /\ UNCHANGED <<indoor_files, outdoor_files, raw_indoor, bronze_indoor,
                   bronze_outdoor, outdoor_resampled, comfort_df,
                   daily_metrics, log, clock, fs, raw_dir, run,
                   dag, api>>

\* pd.to_datetime of an ISO-8601 string
to_datetime(iso) == iso[1] * MinutesPerDay + iso[2] * 60 + iso[3]

\* pd.DataFrame(all_records): a key that a record lacks (or holds null in)
\* reads as NaN in the frame
Field(raw, name) == IF name \in DOMAIN raw THEN raw[name] ELSE NaN

BronzeRow(raw, data_type, now) ==
    IF data_type = "indoor"
    THEN [event_id |-> Field(raw, "event_id"),
          ts_utc |-> IF "ts_utc" \in DOMAIN raw THEN to_datetime(raw.ts_utc) ELSE NaN,
          building_id |-> Field(raw, "building_id"),
          room_id |-> Field(raw, "room_id"),
          sensor_type |-> Field(raw, "sensor_type"),
          value |-> Field(raw, "value"),
          unit |-> Field(raw, "unit"),
          ingestion_timestamp |-> now]
    ELSE [ts_utc |-> IF "ts_utc" \in DOMAIN raw THEN to_datetime(raw.ts_utc) ELSE NaN,
          latitude |-> Field(raw, "latitude"),
          longitude |-> Field(raw, "longitude"),
          temp_c |-> Field(raw, "temp_c"),
          rel_humidity_pct |-> Field(raw, "rel_humidity_pct"),
          wind_speed_ms |-> Field(raw, "wind_speed_ms"),
          source |-> Field(raw, "source"),
          ingestion_timestamp |-> now]

\* the columns of pd.DataFrame(all_records): every key some record holds
RawColumns(df) == UNION {DOMAIN df[i] : i \in DOMAIN df}

\* The exception transform_to_bronze raises, or "ok".  Selecting a column no
\* record holds raises KeyError (lines 104, 112-118); astype(int) raises
\* ValueError when event_id is NaN in some row; astype(float) and
\* pd.to_datetime keep NaN.
bronze_error(df, data_type) ==
    IF df = <<>> THEN "ok"
    ELSE IF "ts_utc" \notin RawColumns(df) THEN "KeyError"
    ELSE IF data_type = "indoor"
         THEN IF "event_id" \notin RawColumns(df) THEN "KeyError"
              ELSE IF \E i \in DOMAIN df : "event_id" \notin DOMAIN df[i]
                   THEN "ValueError"
              ELSE IF "value" \notin RawColumns(df) THEN "KeyError"
              ELSE "ok"
         ELSE IF \E c \in {"temp_c", "rel_humidity_pct", "wind_speed_ms"} :
                     c \notin RawColumns(df)
              THEN "KeyError"
              ELSE "ok"

\* the empty frame is returned as it is; otherwise every row is copied with
\* its timestamp parsed, its measurements cast and the ingestion time added
transform_to_bronze(df, data_type, now) ==
    IF df = <<>> THEN df
    ELSE [i \in DOMAIN df |-> BronzeRow(df[i], data_type, now)]

\* a call that raises leaves the engine at the exception
TransformIndoor ==
    /\ pc = "raw"
    /\ IF bronze_error(raw_indoor, "indoor") = "ok"
       THEN /\ bronze_indoor' = transform_to_bronze(raw_indoor, "indoor", clock)
            /\ pc' = "indoor_bronze"
       ELSE /\ pc' = bronze_error(raw_indoor, "indoor")
            /\ UNCHANGED bronze_indoor
    /\ UNCHANGED <<indoor_files, outdoor_files, raw_indoor, raw_outdoor,
                   bronze_outdoor, outdoor_resampled, comfort_df,
                   daily_metrics, log, clock, fs, raw_dir, run,
                   dag, api>>

TransformOutdoor ==
    /\ pc = "indoor_bronze"
    /\ IF bronze_error(raw_outdoor, "outdoor") = "ok"
       THEN /\ bronze_outdoor' = transform_to_bronze(raw_outdoor, "outdoor", clock)
            /\ pc' = "bronze"
       ELSE /\ pc' = bronze_error(raw_outdoor, "outdoor")
            /\ UNCHANGED bronze_outdoor
    /\ UNCHANGED <<indoor_files, outdoor_files, raw_indoor, raw_outdoor,
                   bronze_indoor, outdoor_resampled, comfort_df,
                   daily_metrics, log, clock, fs, raw_dir, run,
                   dag, api>>

----------------------------------------------------------------------------
(* Bounded inputs of the loaders *)

\* number of files matched per stream and number of lines per file
MaxFiles == 2
MaxLines == 2

MalformedLine == [json |-> FALSE, text |-> "{'event_id': 1,"]

IndoorLine(id, minute, sensor, v, u) ==
    [json |-> TRUE,
     obj |-> [event_id |-> id, ts_utc |-> <<0, 0, minute>>,
              building_id |-> BuildingIds[1], room_id |-> RoomIds[1],
              sensor_type |-> sensor, value |-> Num(v), unit |-> u]]

OutdoorLine(minute, t, h) ==
    [json |-> TRUE,
     obj |-> [ts_utc |-> <<0, 0, minute>>, latitude |-> Num(59),
              longitude |-> Num(24), temp_c |-> Num(t),
              rel_humidity_pct |-> Num(h), wind_speed_ms |-> Num(4),
              source |-> "synthetic_generator_v1"]]

IndoorLines == {MalformedLine, IndoorLine(1, 0, "temp", 20, "C"),
                IndoorLine(2, 5, "co2", 1001, "ppm")}
OutdoorLines == {MalformedLine, OutdoorLine(0, 26, 50)}

FileContents(lines) == UNION {[1..m -> lines] : m \in 0..MaxLines}
FileLists(lines) == UNION {[1..n -> FileContents(lines)] : n \in 0..MaxFiles}

\* the loaders and the normaliser called in sequence on the files of one
\* target date; one stream varies while the other is a single sound file
InitLoad ==
    /\ pc = "start"
    /\ \/ /\ indoor_files \in FileLists(IndoorLines)
          /\ outdoor_files = <<<<OutdoorLine(0, 26, 50)>>>>
       \/ /\ indoor_files = <<<<IndoorLine(1, 0, "temp", 20, "C")>>>>
          /\ outdoor_files \in FileLists(OutdoorLines)
    /\ raw_indoor = <<>>
    /\ raw_outdoor = <<>>
    /\ bronze_indoor = <<>>
    /\ bronze_outdoor = <<>>
    /\ outdoor_resampled = <<>>
    /\ comfort_df = EmptyFrame
    /\ daily_metrics = EmptyFrame
    /\ log = <<>>
    /\ clock = 0
    /\ fs = {}
    /\ raw_dir = NoRawFiles
    /\ run = <<>>
    /\ dag = NoDag
    /\ api = NoRequests

NextLoad ==
    \/ load_raw_indoor
    \/ load_raw_outdoor
    \/ TransformIndoor
    \/ TransformOutdoor

SpecLoad == InitLoad /\ [][NextLoad]_vars

----------------------------------------------------------------------------
(* Properties of the loaders *)

LinePositions(files) ==
    UNION {{<<f, l>> : l \in DOMAIN files[f]} : f \in DOMAIN files}
TotalLines(files) == Cardinality(LinePositions(files))
MalformedCount(files) ==
    Cardinality({p \in LinePositions(files) : ~files[p[1]][p[2]].json})

\* the well-formed lines of the files, in reading order, found by position
PositionLeq(p, q) == p[1] < q[1] \/ (p[1] = q[1] /\ p[2] <= q[2])
RECURSIVE InReadingOrder(_)
InReadingOrder(P) ==
    IF P = {} THEN <<>>
    ELSE LET m == CHOOSE p \in P : \A q \in P : PositionLeq(p, q)
         IN <<m>> \o InReadingOrder(P \ {m})
WellFormed(files) ==
    LET ps == InReadingOrder({p \in LinePositions(files) : files[p[1]][p[2]].json})
    IN [i \in DOMAIN ps |-> files[ps[i][1]][ps[i][2]].obj]

\* C9: the number of bronze rows of a stream equals the number of lines of its
\* files minus the number of lines that do not parse; a malformed line drops no
\* well-formed line of the same or of a later file: the bronze rows are the
\* well-formed lines, one for one and in reading order.
C9_RowCount ==
    pc = "bronze" =>
        /\ Len(bronze_indoor) = TotalLines(indoor_files) - MalformedCount(indoor_files)
        /\ Len(bronze_outdoor) = TotalLines(outdoor_files) - MalformedCount(outdoor_files)
        /\ \A i \in DOMAIN bronze_indoor :
              /\ i \in DOMAIN WellFormed(indoor_files)
              /\ bronze_indoor[i].event_id = WellFormed(indoor_files)[i].event_id
              /\ bronze_indoor[i].value = WellFormed(indoor_files)[i].value
        /\ \A i \in DOMAIN bronze_outdoor :
              /\ i \in DOMAIN WellFormed(outdoor_files)
              /\ bronze_outdoor[i].temp_c = WellFormed(outdoor_files)[i].temp_c

\* a malformed line followed by a well-formed line in the first file and a
\* well-formed line in the second file: only the malformed line is left out
C9_Witness ==
    /\ pc = "bronze"
    /\ Len(indoor_files) = 2
    /\ Len(indoor_files[1]) = 2
    /\ ~indoor_files[1][1].json
    /\ indoor_files[1][2].json
    /\ Len(indoor_files[2]) >= 1
    /\ indoor_files[2][1].json
    /\ Len(bronze_indoor) = TotalLines(indoor_files) - 1

----------------------------------------------------------------------------
(* compute_daily_metrics *)

\* only the groups of the date of the first record are kept
GroupKeys_first_date(rows) ==
    {<<rows[i].date, rows[i].building_id, rows[i].room_id>> :
        i \in {j \in DOMAIN rows : rows[j].date = rows[1].date}}

\* groupby(['date', 'building_id', 'room_id']): the keys that occur
GroupKeys(rows) ==
    {<<rows[i].date, rows[i].building_id, rows[i].room_id>> : i \in DOMAIN rows}
\* the group of a room over all dates
GroupOf_any_date(rows, key) ==
    {i \in DOMAIN rows : <<rows[i].building_id, rows[i].room_id>> = <<key[2], key[3]>>}

GroupOf(rows, key) ==
    {i \in DOMAIN rows : <<rows[i].date, rows[i].building_id, rows[i].room_id>> = key}

\* ('ts_utc', 'count')
CountReadings(rows, g) == Cardinality(g)
\* ('overcooled_flag', 'sum') and ('stale_air_flag', 'sum')
SumOvercooled(rows, g) == Cardinality({i \in g : rows[i].overcooled_flag})
SumStaleAir(rows, g) == Cardinality({i \in g : rows[i].stale_air_flag})

\* mean of a column over a group, NaN cells left out: the fraction
\* <<numerator, denominator>>, or NaN when the group has no value
RECURSIVE SumFractions(_, _)
SumFractions(S, cell) ==
    IF S = {} THEN <<0, 1>>
    ELSE LET x == CHOOSE y \in S : TRUE
             rest == SumFractions(S \ {x}, cell)
         IN <<CellSum(cell[x]) * rest[2] + rest[1] * CellCount(cell[x]),
              CellCount(cell[x]) * rest[2]>>

MeanOf(rows, g, cell) ==
    LET have == {i \in g : notna(cell[i])}
    IN IF have = {} THEN NaN
       ELSE <<SumFractions(have, cell)[1],
              SumFractions(have, cell)[2] * Cardinality(have)>>

\* the percentage cut after 2 decimals instead of rounded
Round2Pct_truncated(n, n_readings) == (n * 10000) \div n_readings

\* (n / n_readings * 100).round(2), held as a whole number of hundredths;
\* a value half way between two hundredths goes to the even one
Round2Pct(n, n_readings) ==
    LET q == (n * 10000) \div n_readings
        r == (n * 10000) % n_readings
    IN IF 2 * r < n_readings THEN q
       ELSE IF 2 * r > n_readings THEN q + 1
       ELSE IF q % 2 = 0 THEN q ELSE q + 1

MetricRow(rows, key) ==
    LET g == GroupOf(rows, key)
    IN [date |-> key[1], building_id |-> key[2], room_id |-> key[3],
        n_readings |-> CountReadings(rows, g),
        n_overcooled |-> SumOvercooled(rows, g),
        n_stale_air |-> SumStaleAir(rows, g),
        avg_indoor_temp |-> MeanOf(rows, g, [i \in g |-> rows[i].indoor_temp_c]),
        avg_indoor_humidity |->
            MeanOf(rows, g, [i \in g |-> rows[i].indoor_rel_humidity_pct]),
        avg_indoor_co2 |-> MeanOf(rows, g, [i \in g |-> rows[i].indoor_co2_ppm]),
        avg_outdoor_temp |-> MeanOf(rows, g, [i \in g |-> rows[i].outdoor_temp_c]),
        pct_time_overcooled |-> Round2Pct(SumOvercooled(rows, g), CountReadings(rows, g)),
        pct_time_stale_air |-> Round2Pct(SumStaleAir(rows, g), CountReadings(rows, g))]

AggregatedColumns ==
    {"date", "building_id", "room_id", "ts_utc", "overcooled_flag",
     "stale_air_flag", "indoor_temp_c", "indoor_rel_humidity_pct",
     "indoor_co2_ppm", "outdoor_temp_c"}
MetricColumns ==
    {"date", "building_id", "room_id", "n_readings", "n_overcooled",
     "n_stale_air", "avg_indoor_temp", "avg_indoor_humidity", "avg_indoor_co2",
     "avg_outdoor_temp", "pct_time_overcooled", "pct_time_stale_air"}

\* the value returned by compute_daily_metrics, or the exception of the
\* named aggregation when a column it names does not exist; the groups come
\* out sorted by (date, building_id, room_id)
metrics_frame(df) ==
    IF df.rows = <<>> THEN EmptyFrame
    ELSE IF ~(AggregatedColumns \subseteq df.columns) THEN Raised("KeyError")
    ELSE LET ks == SortKeys(GroupKeys(df.rows))
         IN [status |-> "ok", columns |-> MetricColumns,
             rows |-> [i \in DOMAIN ks |-> MetricRow(df.rows, ks[i])]]

compute_daily_metrics ==
    /\ pc = "silver"
    /\ comfort_df.status = "ok"
    /\ daily_metrics' = metrics_frame(comfort_df)
    /\ pc' = "gold"
    /\ UNCHANGED <<indoor_files, outdoor_files, raw_indoor, raw_outdoor,
                   bronze_indoor, bronze_outdoor, outdoor_resampled,
                   comfort_df, log, clock, fs, raw_dir, run,
                   dag, api>>

----------------------------------------------------------------------------
(* Bounded inputs of the aggregation *)

\* number of ComfortRecords handed to compute_daily_metrics
MaxComfort == 4

\* record number i of a silver frame: code selects the date, the room and
\* the two flags
SilverRow(code, i) ==
    [ts_utc |-> (code \div 8) * MinutesPerDay + i * FreqMin,
     building_id |-> BuildingIds[1],
     room_id |-> RoomIds[((code \div 4) % 2) + 1],
     indoor_temp_c |-> <<22, 1>>,
     indoor_rel_humidity_pct |-> <<45, 1>>,
     indoor_co2_ppm |-> <<800, 1>>,
     indoor_voc_ppb |-> NaN,
     outdoor_temp_c |-> Num(10),
     outdoor_rel_humidity_pct |-> Num(50),
     data_quality |-> "actual",
     overcooled_flag |-> (code \div 2) % 2 = 1,
     stale_air_flag |-> code % 2 = 1,
     date |-> code \div 8]

SilverFrames(n) ==
    {[status |-> "ok",
      columns |-> KeyColumns \cup JoinedColumns \cup
                  {"indoor_temp_c", "indoor_rel_humidity_pct", "indoor_co2_ppm"},
      rows |-> [i \in DOMAIN c |-> SilverRow(c[i], i)]] : c \in SortedCodes(n, 16)}

\* compute_daily_metrics called on a silver frame
InitGold ==
    /\ pc = "silver"
    /\ comfort_df \in SilverFrames(MaxComfort)
    /\ indoor_files = <<>>
    /\ outdoor_files = <<>>
    /\ raw_indoor = <<>>
    /\ raw_outdoor = <<>>
    /\ bronze_indoor = <<>>
    /\ bronze_outdoor = <<>>
    /\ outdoor_resampled = <<>>
    /\ daily_metrics = EmptyFrame
    /\ log = <<>>
    /\ clock = 0
    /\ fs = {}
    /\ raw_dir = NoRawFiles
    /\ run = <<>>
    /\ dag = NoDag
    /\ api = NoRequests

NextGold == compute_daily_metrics

SpecGold == InitGold /\ [][NextGold]_vars

----------------------------------------------------------------------------
(* Properties of the aggregation *)

Aggregated == pc = "gold" /\ daily_metrics.status = "ok"
MetricRows == Range(daily_metrics.rows)
RecordsOf(m) ==
    {i \in DOMAIN comfort_df.rows :
        /\ comfort_df.rows[i].date = m.date
        /\ comfort_df.rows[i].building_id = m.building_id
        /\ comfort_df.rows[i].room_id = m.room_id}

\* p hundredths is 100 * n / total rounded to 2 decimals: no other number of
\* hundredths is nearer
IsRounded2(p, n, total) == 2 * Abs(p * total - 10000 * n) <= total

\* C10: every DailyMetric has 0 <= n_overcooled <= n_readings and
\* 0 <= n_stale_air <= n_readings, both counts are the numbers of records of
\* the group whose flag is true, and both percentages are 100 * count /
\* n_readings rounded to 2 decimals.
C10_DailyMetric ==
    Aggregated =>
        \A m \in MetricRows :
            /\ 0 <= m.n_overcooled /\ m.n_overcooled <= m.n_readings
            /\ 0 <= m.n_stale_air /\ m.n_stale_air <= m.n_readings
            /\ m.n_overcooled =
                  Cardinality({i \in RecordsOf(m) : comfort_df.rows[i].overcooled_flag})
            /\ m.n_stale_air =
                  Cardinality({i \in RecordsOf(m) : comfort_df.rows[i].stale_air_flag})
            /\ IsRounded2(m.pct_time_overcooled, m.n_overcooled, m.n_readings)
            /\ IsRounded2(m.pct_time_stale_air, m.n_stale_air, m.n_readings)

\* a room-day of 3 records with 2 overcooled and 1 stale: 66.67 and 33.33
C10_Witness ==
    /\ Aggregated
    /\ \E m \in MetricRows :
          /\ m.n_readings = 3
          /\ m.n_overcooled = 2
          /\ m.n_stale_air = 1
          /\ m.pct_time_overcooled = 6667
          /\ m.pct_time_stale_air = 3333


\* C11: compute_daily_metrics emits exactly one row for each distinct
\* (date, building, room) among the ComfortRecords: the keys of the gold rows
\* are the keys of the input, no key is emitted twice, and every emitted row
\* has n_readings >= 1.
C11_OneRowPerKey ==
    Aggregated =>
        /\ {<<m.date, m.building_id, m.room_id>> : m \in MetricRows} =
              {<<r.date, r.building_id, r.room_id>> : r \in Range(comfort_df.rows)}
        /\ \A i, j \in DOMAIN daily_metrics.rows :
              (/\ daily_metrics.rows[i].date = daily_metrics.rows[j].date
               /\ daily_metrics.rows[i].building_id = daily_metrics.rows[j].building_id
               /\ daily_metrics.rows[i].room_id = daily_metrics.rows[j].room_id)
              => i = j
        /\ \A m \in MetricRows : m.n_readings >= 1

\* four records over two dates and two rooms, two of them in one group:
\* three gold rows
C11_Witness ==
    /\ Aggregated
    /\ Len(comfort_df.rows) = 4
    /\ Len(daily_metrics.rows) = 3
    /\ \E m \in MetricRows : m.n_readings = 2
    /\ \E m1, m2 \in MetricRows : m1.date # m2.date
    /\ \E m1, m2 \in MetricRows : m1.room_id # m2.room_id


----------------------------------------------------------------------------
(* write_partitioned_parquet *)

\* The calendar of the modelled days: day 0 is 2024-01-31, day d >= 1 is
\* 2024-02-d.  df['date'].dt.year, .dt.month and .dt.day as <<year, month, day>>.
CalendarDate(d) == IF d = 0 THEN <<2024, 1, 31>> ELSE <<2024, 2, d>>

\* Columns of a frame held as a sequence of rows
Columns(rows) == UNION {DOMAIN rows[i] : i \in DOMAIN rows}

\* df['year'], df['month'], df['day'] = df['date'].dt.year, .dt.month, .dt.day
PartitionColumns == {"year", "month", "day"}
add_partition_columns(row) ==
    [c \in DOMAIN row \cup PartitionColumns |->
        CASE c = "year" -> CalendarDate(row.date)[1]
          [] c = "month" -> CalendarDate(row.date)[2]
          [] c = "day" -> CalendarDate(row.date)[3]
          [] OTHER -> row[c]]

\* group.drop(columns=['year', 'month', 'day'])
drop_partition_columns(row) == [c \in DOMAIN row \ PartitionColumns |-> row[c]]

\* The frame the caller holds after write_partitioned_parquet(df, ...,
\* partition_cols): the function assigns the columns year, month and day (and
\* the date column turned into datetime64, the same day) to df itself, not to
\* a copy, so the caller's frame carries them when the call returns or raises.
frame_after_write(df, partition_cols) ==
    IF df.rows # <<>> /\ "date" \in partition_cols /\ "date" \in df.columns
    THEN [df EXCEPT !.columns = @ \cup PartitionColumns,
                    !.rows = [i \in DOMAIN @ |-> add_partition_columns(@[i])]]
    ELSE df

\* only the group of the first row is written
PartitionKeys_first(rows) == {CalendarDate(rows[1].date)}

\* df.groupby(['year', 'month', 'day']): the keys that occur
PartitionKeys(rows) == {CalendarDate(rows[i].date) : i \in DOMAIN rows}

\* every partition receives the whole frame instead of its group
GroupData_whole(rows, key) == rows

\* the rows of one group, in frame order (the columns year, month, day are
\* dropped again before the group is written)
GroupData(rows, key) ==
    LET group == SelectSeq(rows, LAMBDA r : CalendarDate(r.date) = key)
    IN [i \in DOMAIN group |->
           drop_partition_columns(add_partition_columns(group[i]))]

\* output_path / year=YYYY / month=MM / day=DD / part-<now>.parquet
PartitionFile(layer, table_name, key, now) ==
    [layer |-> layer, table |-> table_name, partition |-> key,
     name |-> <<"part", now>>]

\* output_path / <table_name>_<now>.parquet
SingleFile(layer, table_name, now) ==
    [layer |-> layer, table |-> table_name, partition |-> <<>>,
     name |-> <<table_name, now>>]

\* The files one call of write_partitioned_parquet hands to to_parquet.
\* partition_cols is the set of the names passed (empty for None); by is the
\* invocation that writes.  The token of every file name is the clock value
\* now, of second resolution.  The callers pass ['date'] or None; ['date']
\* for a frame without that column leaves the date layout and writes no file
\* of it (no caller does so).
write_partitioned_parquet(rows, columns, layer, table_name, partition_cols, now, by) ==
    IF rows = <<>> THEN {}
    ELSE IF partition_cols # {}
         THEN IF "date" \in columns /\ "date" \in partition_cols
              THEN {[path |-> PartitionFile(layer, table_name, key, now),
                     rows |-> GroupData(rows, key), by |-> by] :
                        key \in PartitionKeys(rows)}
              ELSE {}
         ELSE {[path |-> SingleFile(layer, table_name, now),
                rows |-> rows, by |-> by]}

\* to_parquet on each of the files: a file that exists at the same path is
\* replaced
to_parquet(disk, files) ==
    {f \in disk : \A g \in files : g.path # f.path} \cup files

\* write_partitioned_parquet called on a silver frame with
\* partition_cols=['date']
WriteSilver ==
    /\ pc = "silver"
    /\ comfort_df.status = "ok"
    /\ fs' = to_parquet(fs, write_partitioned_parquet(comfort_df.rows,
                 comfort_df.columns, "silver", "hvac_comfort_facts", {"date"},
                 clock, 0))
    /\ comfort_df' = frame_after_write(comfort_df, {"date"})
    /\ pc' = "written"
    /\ UNCHANGED <<indoor_files, outdoor_files, raw_indoor, raw_outdoor,
                   bronze_indoor, bronze_outdoor, outdoor_resampled,
                   daily_metrics, log, clock, raw_dir, run,
                   dag, api>>

NextWrite == WriteSilver

SpecWrite == InitGold /\ [][NextWrite]_vars

----------------------------------------------------------------------------
(* Properties of the writer *)

\* the places <<file, position>> at which a row is stored on disk
PlacesOf(row) ==
    {<<f, k>> \in UNION {{f} \X DOMAIN f.rows : f \in fs} : f.rows[k] = row}

\* the rows handed to the writer, by the columns they had at the call
InputRows == {drop_partition_columns(r) : r \in Range(comfort_df.rows)}

\* C12: with the date column present, every row of the input is written
\* exactly once, into a file under <layer>/<table>/year=/month=/day= of the
\* row's own date; rows of several dates give one file in each of those
\* directories and no row lands in the directory of another date.
C12_RowsToOwnPartition ==
    pc = "written" =>
        /\ \A r \in InputRows :
              /\ Cardinality(PlacesOf(r)) = 1
              /\ \A pl \in PlacesOf(r) :
                    /\ pl[1].path.layer = "silver"
                    /\ pl[1].path.table = "hvac_comfort_facts"
                    /\ pl[1].path.partition = CalendarDate(r.date)
        /\ \A f \in fs : \A k \in DOMAIN f.rows :
              /\ f.rows[k] \in InputRows
              /\ f.path.partition = CalendarDate(f.rows[k].date)
        /\ \A d \in {r.date : r \in InputRows} :
              Cardinality({f \in fs : f.path.partition = CalendarDate(d)}) = 1

\* four records, three of 2024-01-31 and one of 2024-02-01: two files in two
\* directories
C12_Witness ==
    /\ pc = "written"
    /\ Cardinality(fs) = 2
    /\ \E f \in fs : f.path.partition = <<2024, 1, 31>> /\ Len(f.rows) = 3
    /\ \E f \in fs : f.path.partition = <<2024, 2, 1>> /\ Len(f.rows) = 1


----------------------------------------------------------------------------
(* run_pipeline_for_day *)

\* An invocation is a record of the target date, the locals of
\* run_pipeline_for_day and the position reached.  A raw file is a record of
\* the date string its name contains and its lines; the files of a stream are
\* held in the order of their names.

\* sorted(glob.glob(f"{base_path}/raw/<stream>/*{target_date}*.jsonl"))
Glob(files, target_date) ==
    LET sel == SelectSeq(files, LAMBDA f : f.date = target_date)
    IN [i \in DOMAIN sel |-> sel[i].lines]

\* seconds the wall clock can advance while the invocations run
MaxClock == 1

MISSING_ERROR == "Error: Missing required data files"

\* the early return taken only when both frames are empty
missing_required_both(indoor, outdoor) == indoor = <<>> /\ outdoor = <<>>

\* raw_indoor.empty or raw_outdoor.empty
missing_required(indoor, outdoor) == indoor = <<>> \/ outdoor = <<>>

\* partition_cols=['date'] if 'date' in <bronze frame>.columns else None
BronzePartitionCols(rows) == IF "date" \in Columns(rows) THEN {"date"} ELSE {}

\* the write the invocation performs at its position: the files handed to
\* to_parquet when the clock reads now
PendingWrite(r, now) ==
    LET me == run[r]
    IN CASE me.pc = "bronze" ->
              write_partitioned_parquet(me.bronze_indoor, Columns(me.bronze_indoor),
                  "bronze", "indoor_events", BronzePartitionCols(me.bronze_indoor), now, r)
         [] me.pc = "bronze_indoor_written" ->
              write_partitioned_parquet(me.bronze_outdoor, Columns(me.bronze_outdoor),
                  "bronze", "outdoor_weather", BronzePartitionCols(me.bronze_outdoor), now, r)
         [] me.pc = "silver" ->
              write_partitioned_parquet(me.comfort_facts.rows, me.comfort_facts.columns,
                  "silver", "hvac_comfort_facts", {"date"}, now, r)
         [] me.pc = "gold" ->
              write_partitioned_parquet(me.daily_metrics.rows, me.daily_metrics.columns,
                  "gold", "daily_comfort_metrics", {"date"}, now, r)
         [] OTHER -> {}

UnchangedUnits ==
    UNCHANGED <<pc, indoor_files, outdoor_files, raw_indoor, raw_outdoor,
                bronze_indoor, bronze_outdoor, outdoor_resampled, comfort_df,
                daily_metrics, raw_dir, dag, api>>

\* an invocation starts when the one it was scheduled after has ended
Ended(r) == run[r].pc \in {"done", "raised", "failed"}
MayStart(r) == IF run[r].after = 0 THEN TRUE ELSE Ended(run[r].after)

\* lines 318-326: both loads, then the early return when a stream is empty
RunLoad(r) ==
    /\ run[r].pc = "start"
    /\ MayStart(r)
    /\ LET indoor == ReadFiles(Glob(raw_dir.indoor, run[r].target_date))
           outdoor == ReadFiles(Glob(raw_dir.outdoor, run[r].target_date))
       IN /\ run' = [run EXCEPT ![r].raw_indoor = indoor,
                                ![r].raw_outdoor = outdoor,
                                ![r].pc = IF missing_required(indoor, outdoor)
                                          THEN "done" ELSE "loaded"]
          /\ log' = IF missing_required(indoor, outdoor)
                    THEN Append(log, MISSING_ERROR) ELSE log
    /\ UNCHANGED <<clock, fs>>
    /\ UnchangedUnits

\* lines 329-330: both normalisations; an exception ends the invocation
RunTransform(r) ==
    /\ run[r].pc = "loaded"
    /\ LET ei == bronze_error(run[r].raw_indoor, "indoor")
           eo == bronze_error(run[r].raw_outdoor, "outdoor")
       IN IF ei = "ok" /\ eo = "ok"
          THEN run' = [run EXCEPT
                   ![r].bronze_indoor =
                       transform_to_bronze(run[r].raw_indoor, "indoor", clock),
                   ![r].bronze_outdoor =
                       transform_to_bronze(run[r].raw_outdoor, "outdoor", clock),
                   ![r].pc = "bronze"]
          ELSE run' = [run EXCEPT ![r].pc = "raised",
                                  ![r].error = IF ei # "ok" THEN <<ei>> ELSE <<eo>>]
    /\ UNCHANGED <<clock, fs, log>>
    /\ UnchangedUnits


\* the write of the outdoor table is left out
AfterWrite_skips_outdoor(at) ==
    CASE at = "bronze" -> "bronze_written"
      [] at = "bronze_indoor_written" -> "bronze_written"
      [] at = "silver" -> "silver_written"
      [] at = "gold" -> "done"

\* position after a write that succeeded
AfterWrite(at) ==
    CASE at = "bronze" -> "bronze_indoor_written"
      [] at = "bronze_indoor_written" -> "bronze_written"
      [] at = "silver" -> "silver_written"
      [] at = "gold" -> "done"

WriteStep(r, at) ==
    /\ run[r].pc = at
    /\ fs' = to_parquet(fs, PendingWrite(r, clock))
    /\ run' = [run EXCEPT ![r].pc = AfterWrite(at),
                          ![r].comfort_facts =
                              IF at = "silver" THEN frame_after_write(@, {"date"}) ELSE @,
                          ![r].daily_metrics =
                              IF at = "gold" THEN frame_after_write(@, {"date"}) ELSE @]
    /\ UNCHANGED <<clock, log>>
    /\ UnchangedUnits

\* lines 333-334
RunWriteBronzeIndoor(r) == WriteStep(r, "bronze")
\* lines 335-336
RunWriteBronzeOutdoor(r) == WriteStep(r, "bronze_indoor_written")
\* lines 342-343
RunWriteSilver(r) == WriteStep(r, "silver")
\* lines 349-350
RunWriteGold(r) == WriteStep(r, "gold")

\* lines 339-341: the join; an empty result skips the rest of the run
RunJoin(r) ==
    /\ run[r].pc = "bronze_written"
    /\ LET facts == join_frame(run[r].bronze_indoor, run[r].bronze_outdoor)
       IN run' = [run EXCEPT
              ![r].comfort_facts = facts,
              ![r].error = IF facts.status = "ok" THEN @ ELSE <<facts.status>>,
              ![r].pc = IF facts.status # "ok" THEN "raised"
                        ELSE IF facts.rows = <<>> THEN "done" ELSE "silver"]
    /\ log' = log \o join_log(run[r].bronze_indoor, run[r].bronze_outdoor)
    /\ UNCHANGED <<clock, fs>>
    /\ UnchangedUnits

\* lines 346-348: the aggregation; an empty result skips the gold write
RunGold(r) ==
    /\ run[r].pc = "silver_written"
    /\ LET metrics == metrics_frame(run[r].comfort_facts)
       IN run' = [run EXCEPT
              ![r].daily_metrics = metrics,
              ![r].error = IF metrics.status = "ok" THEN @ ELSE <<metrics.status>>,
              ![r].pc = IF metrics.status # "ok" THEN "raised"
                        ELSE IF metrics.rows = <<>> THEN "done" ELSE "gold"]
    /\ UNCHANGED <<clock, fs, log>>
    /\ UnchangedUnits

\* order of the groups of df.groupby(['year', 'month', 'day'])
CalendarLt(k1, k2) ==
    /\ k1 # <<>>
    /\ k2 # <<>>
    /\ \/ k1[1] < k2[1]
       \/ k1[1] = k2[1] /\ k1[2] < k2[2]
       \/ k1[1] = k2[1] /\ k1[2] = k2[2] /\ k1[3] < k2[3]

\* the files of the invocation are removed when a write fails
after_failure_rollback(disk, r, written) == {f \in disk : f.by # r}

\* the disk after a write that failed: the files written before the failing
\* one are there, and nothing is undone (no handler around the writes)
after_failure(disk, r, written) == to_parquet(disk, written)

\* to_parquet raises an I/O error on one of the files of the pending write:
\* the exception leaves run_pipeline_for_day
RunWriteFails(r) ==
    /\ run[r].pc \in {"bronze", "bronze_indoor_written", "silver", "gold"}
    /\ \E g \in PendingWrite(r, clock) :
          LET written == {f \in PendingWrite(r, clock) :
                             CalendarLt(f.path.partition, g.path.partition)}
          IN /\ fs' = after_failure(fs, r, written)
             /\ run' = [run EXCEPT
                    ![r].pc = "failed",
                    ![r].error = <<"OSError", g.path.layer, g.path.table>>,
                    ![r].comfort_facts =
                        IF run[r].pc = "silver"
                        THEN frame_after_write(@, {"date"}) ELSE @,
                    ![r].daily_metrics =
                        IF run[r].pc = "gold"
                        THEN frame_after_write(@, {"date"}) ELSE @]
    /\ UNCHANGED <<clock, log>>
    /\ UnchangedUnits

\* the wall clock passes from one second to the next
Tick ==
    /\ clock < MaxClock
    /\ clock' = clock + 1
    /\ UNCHANGED <<fs, run, log>>
    /\ UnchangedUnits

NextRun ==
    \/ \E r \in DOMAIN run : RunLoad(r)
    \/ \E r \in DOMAIN run : RunTransform(r)
    \/ \E r \in DOMAIN run : RunWriteBronzeIndoor(r)
    \/ \E r \in DOMAIN run : RunWriteBronzeOutdoor(r)
    \/ \E r \in DOMAIN run : RunJoin(r)
    \/ \E r \in DOMAIN run : RunWriteSilver(r)
    \/ \E r \in DOMAIN run : RunGold(r)
    \/ \E r \in DOMAIN run : RunWriteGold(r)
    \/ \E r \in DOMAIN run : RunWriteFails(r)
    \/ Tick


----------------------------------------------------------------------------
(* Inputs of the invocations *)

NewRun(target_date, after) ==
    [target_date |-> target_date, after |-> after, pc |-> "start",
     raw_indoor |-> <<>>, raw_outdoor |-> <<>>,
     bronze_indoor |-> <<>>, bronze_outdoor |-> <<>>,
     comfort_facts |-> EmptyFrame, daily_metrics |-> EmptyFrame,
     error |-> <<>>]

IndoorLineOn(day, id, minute, sensor, v, u) ==
    [json |-> TRUE,
     obj |-> [IndoorLine(id, minute, sensor, v, u).obj
                 EXCEPT !.ts_utc = <<day, 0, minute>>]]

OutdoorLineOn(day, minute, t, h) ==
    [json |-> TRUE,
     obj |-> [OutdoorLine(minute, t, h).obj EXCEPT !.ts_utc = <<day, 0, minute>>]]

RawFile(date, lines) == [date |-> date, lines |-> lines]

\* a temperature, a humidity and a CO2 event of the day at 00:00, as the
\* generator writes them
IndoorOf(day) ==
    <<IndoorLineOn(day, 1, 0, "temp", 20, "C"),
      IndoorLineOn(day, 2, 0, "humidity", 45, "%"),
      IndoorLineOn(day, 3, 0, "co2", 1001, "ppm")>>
OutdoorOf(day) == <<OutdoorLineOn(day, 0, 26, 50)>>

\* a file whose last event is stamped 00:00 of the next day
IndoorSpill(day) ==
    IndoorOf(day) \o <<IndoorLineOn(day + 1, 4, 0, "temp", 22, "C")>>

\* the raw directories a single invocation for day 0 may find
IndoorDirs ==
    {<<>>,
     <<RawFile(0, IndoorOf(0))>>,
     <<RawFile(0, <<MalformedLine>>)>>,
     <<RawFile(0, IndoorSpill(0))>>,
     <<RawFile(1, IndoorOf(1))>>,
     <<RawFile(0, IndoorOf(0)), RawFile(1, IndoorOf(1))>>}
OutdoorDirs ==
    {<<>>,
     <<RawFile(0, OutdoorOf(0))>>,
     <<RawFile(0, <<MalformedLine>>)>>,
     <<RawFile(0, <<MalformedLine>> \o OutdoorOf(0))>>}

InitUnits ==
    /\ pc = "idle"
    /\ indoor_files = <<>>
    /\ outdoor_files = <<>>
    /\ raw_indoor = <<>>
    /\ raw_outdoor = <<>>
    /\ bronze_indoor = <<>>
    /\ bronze_outdoor = <<>>
    /\ outdoor_resampled = <<>>
    /\ comfort_df = EmptyFrame
    /\ daily_metrics = EmptyFrame
    /\ log = <<>>
    /\ clock = 0
    /\ fs = {}

\* one invocation for day 0
InitRun ==
    /\ InitUnits
    /\ raw_dir \in [indoor : IndoorDirs, outdoor : OutdoorDirs]
    /\ run = <<NewRun(0, 0)>>
    /\ dag = NoDag
    /\ api = NoRequests

\* two invocations for day 0, the second started after the first has ended
InitRerun ==
    /\ InitUnits
    /\ raw_dir \in [indoor : {<<RawFile(0, IndoorOf(0))>>, <<RawFile(0, IndoorSpill(0))>>},
                    outdoor : {<<RawFile(0, OutdoorOf(0))>>}]
    /\ run = <<NewRun(0, 0), NewRun(0, 1)>>
    /\ dag = NoDag
    /\ api = NoRequests

\* two invocations for day 0 and day 1, started independently; every file
\* holds events of its own day only
InitConcurrent ==
    /\ InitUnits
    /\ raw_dir = [indoor |-> <<RawFile(0, IndoorOf(0)), RawFile(1, IndoorOf(1))>>,
                  outdoor |-> <<RawFile(0, OutdoorOf(0)), RawFile(1, OutdoorOf(1))>>]
    /\ run = <<NewRun(0, 0), NewRun(1, 0)>>
    /\ dag = NoDag
    /\ api = NoRequests

SpecRun == InitRun /\ [][NextRun]_vars
SpecRerun == InitRerun /\ [][NextRun]_vars
SpecConcurrent == InitConcurrent /\ [][NextRun]_vars


----------------------------------------------------------------------------
(* Properties of the invocations *)

FilesOf(r) == {f \in fs : f.by = r}
SameDirectory(f, g) ==
    /\ f.path.layer = g.path.layer
    /\ f.path.table = g.path.table
    /\ f.path.partition = g.path.partition
HadData(r) == run[r].raw_indoor # <<>> /\ run[r].raw_outdoor # <<>>
BronzeTables == {"indoor_events", "outdoor_weather"}

\* C13: a run that has data writes the bronze tables indoor_events and
\* outdoor_weather as files under bronze/<table>/year=/month=/day=
\* directories, the layout of the silver and gold tables.
C13_BronzePartitioned ==
    \A r \in DOMAIN run :
        (run[r].pc = "done" /\ HadData(r)) =>
            \A t \in BronzeTables :
                \E f \in FilesOf(r) :
                    /\ f.path.layer = "bronze"
                    /\ f.path.table = t
                    /\ f.path.partition # <<>>

\* C14: a write never replaces an existing file: after two runs of the
\* pipeline for the same date, at whatever times, every directory written by
\* them holds two files.
C14_NewFilePerRun ==
    (\A r \in DOMAIN run : run[r].pc = "done" /\ HadData(r)) =>
        \A f \in fs :
            Cardinality({g \in fs : SameDirectory(f, g)}) = Len(run)

\* the bronze, silver and gold files an invocation that ran to its end has
\* written, as they are expected on disk
WroteAll(r) ==
    /\ \E f \in FilesOf(r) :
          /\ f.path.layer = "bronze" /\ f.path.table = "indoor_events"
          /\ f.rows = run[r].bronze_indoor
    /\ \E f \in FilesOf(r) :
          /\ f.path.layer = "bronze" /\ f.path.table = "outdoor_weather"
          /\ f.rows = run[r].bronze_outdoor
    /\ \A row \in Range(run[r].comfort_facts.rows) :
          \E f \in FilesOf(r) :
              f.path.layer = "silver" /\ drop_partition_columns(row) \in Range(f.rows)
    /\ \A row \in Range(run[r].daily_metrics.rows) :
          \E f \in FilesOf(r) :
              f.path.layer = "gold" /\ drop_partition_columns(row) \in Range(f.rows)

\* C15: two runs for different target dates that execute concurrently do not
\* replace or alter each other's files at any layer: once both have ended
\* normally, the files on disk are those of the one and those of the other.
C15_UnionOfFiles ==
    (\A r \in DOMAIN run : run[r].pc = "done" /\ HadData(r)) =>
        \A r \in DOMAIN run : WroteAll(r)

\* C16: a run for target date D writes silver and gold files only into the
\* year/month/day partition of D, whatever the timestamps of the records of
\* the selected files.
C16_TargetPartitionOnly ==
    \A f \in fs :
        f.path.layer \in {"silver", "gold"} =>
            f.path.partition = CalendarDate(run[f.by].target_date)

\* C16 as amended: every silver and gold file lies in the year/month/day
\* partition of the date of the records it holds, which is the date of the
\* timestamp of an indoor event of the selected files; every ComfortRecord of
\* a run that ended normally is in the silver partition of its own date.
C16_PartitionOfRecordDate ==
    /\ \A f \in fs :
          f.path.layer \in {"silver", "gold"} =>
              /\ \A row \in Range(f.rows) :
                    f.path.partition = CalendarDate(row.date)
              /\ \E i \in DOMAIN run[f.by].raw_indoor :
                    f.path.partition =
                        CalendarDate(run[f.by].raw_indoor[i].ts_utc[1])
    /\ \A r \in DOMAIN run :
          run[r].pc = "done" =>
              \A row \in Range(run[r].comfort_facts.rows) :
                  \E f \in FilesOf(r) :
                      /\ f.path.layer = "silver"
                      /\ f.path.partition = CalendarDate(row.ts_utc \div MinutesPerDay)
                      /\ drop_partition_columns(row) \in Range(f.rows)

\* the run for 2024-01-31 over a file that also holds an event of 2024-02-01
\* has written a silver and a gold file into each of the two partitions
C16_Witness ==
    /\ run[1].pc = "done"
    /\ run[1].target_date = 0
    /\ \A l \in {"silver", "gold"} : \A d \in {0, 1} :
          \E f \in FilesOf(1) :
              f.path.layer = l /\ f.path.partition = CalendarDate(d)


\* the files of a stream selected for a date hold no line that parses
NoRecords(files, target_date) ==
    \A i \in DOMAIN files :
        files[i].date = target_date =>
            \A l \in DOMAIN files[i].lines : ~files[i].lines[l].json

\* C17: when the indoor or the outdoor stream has no records for the target
\* date (no file matches, or every line of the matched files is malformed),
\* the run returns normally and writes no file at any layer, not even the
\* bronze file of the stream that has data.
C17_NoDataNoFiles ==
    \A r \in DOMAIN run :
        (/\ run[r].pc # "start"
         /\ \/ NoRecords(raw_dir.indoor, run[r].target_date)
            \/ NoRecords(raw_dir.outdoor, run[r].target_date))
        => /\ run[r].pc = "done"
           /\ run[r].error = <<>>
           /\ FilesOf(r) = {}

\* the only indoor file of the day holds a malformed line alone while the
\* outdoor stream has a reading: the run has ended and the disk is empty
C17_Witness ==
    /\ run[1].pc = "done"
    /\ raw_dir.indoor = <<RawFile(0, <<MalformedLine>>)>>
    /\ run[1].raw_outdoor # <<>>
    /\ fs = {}
    /\ log = <<MISSING_ERROR>>

\* position of a write among the writes of a run
StageOf(layer, table) ==
    CASE layer = "bronze" /\ table = "indoor_events" -> 1
      [] layer = "bronze" /\ table = "outdoor_weather" -> 2
      [] layer = "silver" -> 3
      [] layer = "gold" -> 4

\* C19: when the write of a partition fails at some layer the run ends with a
\* fatal error, the files it wrote for the earlier layers stay in place
\* unchanged (nothing is rolled back), and no file is written for a later
\* layer.
C19_NoRollbackNoProgress ==
    \A r \in DOMAIN run :
        run[r].pc = "failed" =>
            LET at == StageOf(run[r].error[2], run[r].error[3])
            IN /\ run[r].error[1] = "OSError"
               /\ \A f \in FilesOf(r) : StageOf(f.path.layer, f.path.table) <= at
               /\ at > 1 =>
                     \E f \in FilesOf(r) :
                         /\ StageOf(f.path.layer, f.path.table) = 1
                         /\ f.rows = run[r].bronze_indoor
               /\ at > 2 =>
                     \E f \in FilesOf(r) :
                         /\ StageOf(f.path.layer, f.path.table) = 2
                         /\ f.rows = run[r].bronze_outdoor
               /\ at > 3 =>
                     \A row \in Range(run[r].comfort_facts.rows) :
                         \E f \in FilesOf(r) :
                             /\ StageOf(f.path.layer, f.path.table) = 3
                             /\ drop_partition_columns(row) \in Range(f.rows)

\* the gold write failed on its second partition: both bronze files, both
\* silver files and the first gold file are on disk
C19_Witness ==
    /\ run[1].pc = "failed"
    /\ run[1].error = <<"OSError", "gold", "daily_comfort_metrics">>
    /\ Cardinality({f \in FilesOf(1) : f.path.layer = "bronze"}) = 2
    /\ Cardinality({f \in FilesOf(1) : f.path.layer = "silver"}) = 2
    /\ Cardinality({f \in FilesOf(1) : f.path.layer = "gold"}) = 1


----------------------------------------------------------------------------
(* Empty inputs of the join *)

EmptyInput == bronze_indoor = <<>> \/ bronze_outdoor = <<>>

\* C18: join_and_compute_comfort fails with EmptyInputError, an error outcome
\* distinguishable from a normal result, whenever its indoor or its outdoor
\* input is empty.
C18_EmptyInputError ==
    (pc = "silver" /\ EmptyInput) => comfort_df.status = "EmptyInputError"

\* C18 as amended: with an empty indoor or outdoor input the join raises
\* nothing: it logs the warning 'Empty input data' and returns an empty frame
\* (no rows, no columns) as a normal result.
C18_EmptyFrameReturned ==
    (pc = "silver" /\ EmptyInput) =>
        /\ comfort_df.status = "ok"
        /\ comfort_df.rows = <<>>
        /\ comfort_df.columns = {}
        /\ log = <<EMPTY_WARNING>>

\* the join was called with outdoor readings and no indoor event, and with
\* indoor events and no outdoor reading
C18_Witness ==
    /\ pc = "silver"
    /\ \/ bronze_indoor = <<>> /\ Len(bronze_outdoor) = 2
       \/ bronze_outdoor = <<>> /\ Len(bronze_indoor) = 2
    /\ comfort_df = EmptyFrame
    /\ log = <<EMPTY_WARNING>>


----------------------------------------------------------------------------
(* Batches with incomplete records *)

\* number of records of a raw batch
MaxRaw == 2

\* a record without one of its keys
Without(obj, name) == [k \in DOMAIN obj \ {name} |-> obj[k]]

FullIndoor == IndoorLine(1, 0, "temp", 20, "C").obj
FullOutdoor == OutdoorLine(0, 26, 50).obj

\* records as json.loads returns them: complete, without a key, or with null
\* for a measurement
RawIndoorRecords ==
    {FullIndoor,
     Without(FullIndoor, "event_id"),
     Without(FullIndoor, "value"),
     [FullIndoor EXCEPT !.value = NaN],
     Without(FullIndoor, "unit"),
     Without(FullIndoor, "ts_utc")}
RawOutdoorRecords ==
    {FullOutdoor,
     Without(FullOutdoor, "temp_c"),
     [FullOutdoor EXCEPT !.temp_c = NaN],
     Without(FullOutdoor, "wind_speed_ms")}

Batches(records) == UNION {[1..m -> records] : m \in 0..MaxRaw}

\* transform_to_bronze called on the two raw frames
InitBronze ==
    /\ pc = "raw"
    /\ raw_indoor \in Batches(RawIndoorRecords)
    /\ raw_outdoor \in Batches(RawOutdoorRecords)
    /\ indoor_files = <<>>
    /\ outdoor_files = <<>>
    /\ bronze_indoor = <<>>
    /\ bronze_outdoor = <<>>
    /\ outdoor_resampled = <<>>
    /\ comfort_df = EmptyFrame
    /\ daily_metrics = EmptyFrame
    /\ log = <<>>
    /\ clock = 0
    /\ fs = {}
    /\ raw_dir = NoRawFiles
    /\ run = <<>>
    /\ dag = NoDag
    /\ api = NoRequests

NextBronze ==
    \/ TransformIndoor
    \/ TransformOutdoor

SpecBronze == InitBronze /\ [][NextBronze]_vars

RaisedAt(stage) == pc \in {"KeyError", "ValueError"} /\ stage
IndoorRaised == RaisedAt(bronze_indoor = <<>> /\ raw_indoor # <<>>)
OutdoorRaised == RaisedAt(~(bronze_indoor = <<>> /\ raw_indoor # <<>>))
AbsentEverywhere(df, fields) ==
    \E c \in fields : \A i \in DOMAIN df : c \notin DOMAIN df[i]
BronzeFields(data_type) ==
    IF data_type = "indoor"
    THEN {"event_id", "ts_utc", "building_id", "room_id", "sensor_type",
          "value", "unit"}
    ELSE {"ts_utc", "latitude", "longitude", "temp_c", "rel_humidity_pct",
          "wind_speed_ms", "source"}

\* every raw row is kept, and a field a row lacks is null in its bronze row
PassedThrough(raw, bronze) ==
    /\ Len(bronze) = Len(raw)
    /\ \A i \in DOMAIN raw : \A c \in DOMAIN bronze[i] \ {"ingestion_timestamp"} :
          c \notin DOMAIN raw[i] => bronze[i][c] = NaN

\* C20: transform_to_bronze fails the whole batch only when a field is absent
\* from every row of the batch; a batch in which only some rows lack a field
\* (or hold null in it) is normalised, all its rows are kept and those rows
\* carry null in that field.
C20_PartialRowsPass ==
    /\ IndoorRaised => AbsentEverywhere(raw_indoor, BronzeFields("indoor"))
    /\ OutdoorRaised => AbsentEverywhere(raw_outdoor, BronzeFields("outdoor"))
    /\ pc \in {"indoor_bronze", "bronze"} => PassedThrough(raw_indoor, bronze_indoor)
    /\ pc = "bronze" => PassedThrough(raw_outdoor, bronze_outdoor)

----------------------------------------------------------------------------
(* Order of the stages of one invocation *)

Wrote(r, layer, table) ==
    \E f \in FilesOf(r) : f.path.layer = layer /\ f.path.table = table
WroteBronze(r) ==
    \A t \in BronzeTables : Wrote(r, "bronze", t)
Leaves(r, at) == run[r].pc = at /\ run'[r].pc # at
WritesTo(r, layer) ==
    \E f \in fs' \ fs : f.by = r /\ f.path.layer = layer

\* C23: in every run the bronze tables are on disk when the Aligner runs and
\* the silver table is on disk when the Aggregator runs; the step that writes
\* gold files ends the run and no later step of the run writes anything;
\* gold files of a run exist only with silver files of it, and silver files
\* only with both bronze tables of it.
C23_WriteOrder ==
    /\ [](\A r \in DOMAIN run :
             /\ Wrote(r, "gold", "daily_comfort_metrics")
                   => Wrote(r, "silver", "hvac_comfort_facts")
             /\ Wrote(r, "silver", "hvac_comfort_facts") => WroteBronze(r))
    /\ [][\A r \in DOMAIN run :
             /\ Leaves(r, "bronze_written") => WroteBronze(r)
             /\ Leaves(r, "silver_written")
                   => Wrote(r, "silver", "hvac_comfort_facts")
             /\ WritesTo(r, "gold") => Ended(r)'
             /\ Wrote(r, "gold", "daily_comfort_metrics")
                   => ~ \E f \in fs' \ fs : f.by = r]_vars

\* a run that went through all six stages and wrote the four tables
C23_Witness ==
    \E r \in DOMAIN run :
        /\ run[r].pc = "done"
        /\ run[r].daily_metrics.rows # <<>>
        /\ WroteBronze(r)
        /\ Wrote(r, "silver", "hvac_comfort_facts")
        /\ Wrote(r, "gold", "daily_comfort_metrics")

----------------------------------------------------------------------------
(* Properties of the join: completeness *)

KeyOf(r) == <<r.ts_utc, r.building_id, r.room_id>>
IndoorKeys == {KeyOf(bronze_indoor[i]) : i \in DOMAIN bronze_indoor}
JoinCalled == pc = "silver" /\ bronze_indoor # <<>> /\ bronze_outdoor # <<>>
OneRecordPerKey ==
    /\ comfort_df.status = "ok"
    /\ {KeyOf(r) : r \in ComfortRows} = IndoorKeys
    /\ Len(comfort_df.rows) = Cardinality(IndoorKeys)
ReadingsOf(key, t) ==
    {i \in DOMAIN bronze_indoor :
        KeyOf(bronze_indoor[i]) = key /\ bronze_indoor[i].sensor_type = t}
ArithmeticMean(S) ==
    IF S = {} THEN NaN
    ELSE <<SumOver(S, [i \in S |-> bronze_indoor[i].value[1]]), Cardinality(S)>>
HasSensor(t) == \E i \in DOMAIN bronze_indoor : bronze_indoor[i].sensor_type = t

\* C24: the join returns exactly one ComfortRecord per distinct (timestamp,
\* building, room) of the indoor rows, whatever the outdoor readings are, and
\* each sensor column of the record is the mean of the indoor readings of
\* that sensor type in the group, null when there is none.
C24_OneRecordPerKey ==
    JoinCalled =>
        /\ OneRecordPerKey
        /\ \A r \in ComfortRows :
              /\ r.indoor_temp_c = ArithmeticMean(ReadingsOf(KeyOf(r), "temp"))
              /\ r.indoor_rel_humidity_pct
                    = ArithmeticMean(ReadingsOf(KeyOf(r), "humidity"))
              /\ r.indoor_co2_ppm = ArithmeticMean(ReadingsOf(KeyOf(r), "co2"))
              /\ r.indoor_voc_ppb = ArithmeticMean(ReadingsOf(KeyOf(r), "voc"))

\* C26: for every non-empty indoor batch (the outdoor timestamps distinct)
\* the join completes, and when no row has sensor type temp every
\* overcooled_flag is false, when no row has sensor type co2 every
\* stale_air_flag is false.
C26_FlagsNeverRaise ==
    (JoinCalled /\ ~HasDuplicateIndex(bronze_outdoor)) =>
        /\ comfort_df.status = "ok"
        /\ ~HasSensor("temp") => \A r \in ComfortRows : ~r.overcooled_flag
        /\ ~HasSensor("co2") => \A r \in ComfortRows : ~r.stale_air_flag

FullReading(i) ==
    notna(bronze_outdoor[i].temp_c) /\ notna(bronze_outdoor[i].rel_humidity_pct)
OnGrid(i) == bronze_outdoor[i].ts_utc % FreqMin = 0
KeptAt(i, k) ==
    /\ outdoor_resampled[k].data_quality = "actual"
    /\ outdoor_resampled[k].temp_c = bronze_outdoor[i].temp_c
    /\ outdoor_resampled[k].rel_humidity_pct = bronze_outdoor[i].rel_humidity_pct
OnlyNearest(r, k) ==
    /\ SlotWithin(r, k)
    /\ \A j \in GridSlots \ {k} :
          Abs(outdoor_resampled[j].ts_utc - r.ts_utc)
              > Abs(outdoor_resampled[k].ts_utc - r.ts_utc)

\* C29: every outdoor reading that carries both measurements is found in a
\* grid slot tagged actual, less than one grid step from it, with its
\* temperature and humidity; and a ComfortRecord within 15 minutes of such a
\* reading has non-null outdoor values.
C29_NoReadingDiscarded ==
    (Resampled /\ comfort_df.status = "ok") =>
        /\ \A i \in DOMAIN bronze_outdoor :
              FullReading(i) =>
                  \E k \in GridSlots :
                      /\ Abs(outdoor_resampled[k].ts_utc - bronze_outdoor[i].ts_utc)
                            < FreqMin
                      /\ outdoor_resampled[k].data_quality = "actual"
                      /\ outdoor_resampled[k].temp_c = bronze_outdoor[i].temp_c
                      /\ outdoor_resampled[k].rel_humidity_pct
                            = bronze_outdoor[i].rel_humidity_pct
        /\ \A r \in ComfortRows :
              (\E i \in DOMAIN bronze_outdoor :
                  /\ FullReading(i)
                  /\ Abs(bronze_outdoor[i].ts_utc - r.ts_utc) <= ToleranceMin)
              => notna(r.outdoor_temp_c) /\ notna(r.outdoor_rel_humidity_pct)

\* C29 (amended): the grid keeps the readings stamped exactly on a 5-minute
\* slot: every such reading that carries both measurements is the slot at its
\* timestamp, tagged actual, with its temperature and humidity; and a
\* ComfortRecord whose only nearest slot within 15 minutes is the slot of such
\* a reading receives that reading's non-null outdoor values.
C29_OnGridReadingsKept ==
    (Resampled /\ comfort_df.status = "ok") =>
        \A i \in DOMAIN bronze_outdoor :
            (OnGrid(i) /\ FullReading(i)) =>
                \E k \in GridSlots :
                    /\ outdoor_resampled[k].ts_utc = bronze_outdoor[i].ts_utc
                    /\ KeptAt(i, k)
                    /\ \A r \in ComfortRows :
                          OnlyNearest(r, k) =>
                              /\ notna(r.outdoor_temp_c)
                              /\ notna(r.outdoor_rel_humidity_pct)
                              /\ r.outdoor_temp_c = bronze_outdoor[i].temp_c
                              /\ r.outdoor_rel_humidity_pct
                                    = bronze_outdoor[i].rel_humidity_pct

\* a reading on the grid kept and joined to the indoor row, next to a reading
\* off the grid that no slot represents
C29_Witness ==
    /\ Resampled
    /\ comfort_df.status = "ok"
    /\ \E i \in DOMAIN bronze_outdoor : \E k \in GridSlots :
          /\ OnGrid(i)
          /\ FullReading(i)
          /\ outdoor_resampled[k].ts_utc = bronze_outdoor[i].ts_utc
          /\ KeptAt(i, k)
          /\ \E r \in ComfortRows :
                OnlyNearest(r, k) /\ r.outdoor_temp_c = bronze_outdoor[i].temp_c
    /\ \E i \in DOMAIN bronze_outdoor :
          /\ ~OnGrid(i)
          /\ FullReading(i)
          /\ \A k \in GridSlots : ~KeptAt(i, k)

\* C30: the join completes for non-empty inputs in which two or more outdoor
\* readings share a timestamp, and returns one ComfortRecord per indoor
\* (timestamp, building, room).
C30_DuplicateTimestamps ==
    (JoinCalled /\ HasDuplicateIndex(bronze_outdoor)) => OneRecordPerKey

----------------------------------------------------------------------------
(* Properties of the aggregation: completeness *)

\* C28: every ComfortRecord is counted in exactly one DailyMetric: n_readings
\* of a gold row is the number of ComfortRecords of its (date, building,
\* room), and the n_readings of all gold rows add up to the number of
\* ComfortRecords passed to compute_daily_metrics.
C28_EveryRecordCounted ==
    Aggregated =>
        /\ \A m \in MetricRows : m.n_readings = Cardinality(RecordsOf(m))
        /\ \A i \in DOMAIN comfort_df.rows :
              Cardinality({j \in DOMAIN daily_metrics.rows :
                              i \in RecordsOf(daily_metrics.rows[j])}) = 1
        /\ SumOver(DOMAIN daily_metrics.rows,
                   [j \in DOMAIN daily_metrics.rows |-> daily_metrics.rows[j].n_readings])
              = Len(comfort_df.rows)

\* four records of one room: three on one date, one on the other
C28_Witness ==
    /\ Aggregated
    /\ Len(comfort_df.rows) = 4
    /\ Len(daily_metrics.rows) = 2
    /\ \E m1, m2 \in MetricRows :
          /\ m1.n_readings = 3
          /\ m2.n_readings = 1
          /\ m1.room_id = m2.room_id
          /\ m1.date # m2.date

----------------------------------------------------------------------------
(* Effects of the stages on the row sets passed to them *)

\* the row set held in a local of run_pipeline_for_day is left as it was
Untouched(r) ==
    /\ run[r].raw_indoor # <<>> => run'[r].raw_indoor = run[r].raw_indoor
    /\ run[r].raw_outdoor # <<>> => run'[r].raw_outdoor = run[r].raw_outdoor
    /\ run[r].bronze_indoor # <<>> => run'[r].bronze_indoor = run[r].bronze_indoor
    /\ run[r].bronze_outdoor # <<>> => run'[r].bronze_outdoor = run[r].bronze_outdoor
    /\ run[r].comfort_facts # EmptyFrame
          => run'[r].comfort_facts = run[r].comfort_facts
    /\ run[r].daily_metrics # EmptyFrame
          => run'[r].daily_metrics = run[r].daily_metrics

\* C25: no stage changes a row set after it was created: no step of a run
\* changes the columns or the values of a raw, bronze, silver or gold row set
\* the run already holds, so the ComfortRecords aggregated into gold are the
\* ones the Aligner returned, also after the silver write.
C25_RowSetsUnchanged ==
    [][\A r \in DOMAIN run : Untouched(r)]_vars

----------------------------------------------------------------------------
(* The Airflow DAG hvac_climate_data_pipeline *)

\* default_args['retries']: tries a task is given after its first one
retries == 2

\* One DAG run for the execution date ds.  generate tells whether the task
\* generate_sample_data is part of the DAG (it is commented out where real
\* sensors provide the data); config tells whether config/expected_rooms.txt
\* exists.  A task is waiting ("none"), "running", "up_for_retry", "success",
\* "failed", "upstream_failed", or not part of the DAG ("removed").
NewDagRun(ds, generate, config) ==
    [ds |-> ds, generate |-> generate, config |-> config,
     task |-> [generate_sample_data |-> IF generate THEN "none" ELSE "removed",
               run_data_pipeline |-> "none",
               validate_data_quality |-> "none"],
     tries |-> [generate_sample_data |-> 0, run_data_pipeline |-> 0,
                validate_data_quality |-> 0],
     error |-> <<>>,
     state |-> "running"]

\* a task may be started: it waits for its first try or for a retry
Schedulable(t) == dag.task[t] \in {"none", "up_for_retry"}
\* state of a task whose try raised: retried while tries are left
AfterException(t) ==
    IF dag.tries[t] <= retries THEN "up_for_retry" ELSE "failed"

UnchangedCalls ==
    UNCHANGED <<pc, indoor_files, outdoor_files, raw_indoor, raw_outdoor,
                bronze_indoor, bronze_outdoor, outdoor_resampled, comfort_df,
                daily_metrics>>

\* the file <stream>_<ds>_d1.jsonl written into a raw directory: a file of
\* that date is overwritten; the directory stays in the order of the names
PutFile(files, file) ==
    LET before == SelectSeq(files, LAMBDA f : f.date < file.date)
        after == SelectSeq(files, LAMBDA f : f.date > file.date)
    IN before \o <<file>> \o after

\* generate_sample_data: one day of indoor and of outdoor data for ds
generate_sample_data ==
    /\ dag # NoDag
    /\ dag.state = "running"
    /\ Schedulable("generate_sample_data")
    /\ raw_dir' = [indoor |-> PutFile(raw_dir.indoor, RawFile(dag.ds, IndoorOf(dag.ds))),
                   outdoor |-> PutFile(raw_dir.outdoor,
                                       RawFile(dag.ds, OutdoorOf(dag.ds)))]
    /\ dag' = [dag EXCEPT !.task.generate_sample_data = "success",
                          !.tries.generate_sample_data = @ + 1]
    /\ UNCHANGED <<log, clock, fs, run, api>>
    /\ UnchangedCalls

\* run_data_pipeline is started: it calls run_pipeline_for_day(ds, "data")
run_data_pipeline ==
    /\ dag # NoDag
    /\ dag.state = "running"
    /\ dag.task.generate_sample_data \in {"success", "removed"}
    /\ Schedulable("run_data_pipeline")
    /\ run' = Append(run, NewRun(dag.ds, 0))
    /\ dag' = [dag EXCEPT !.task.run_data_pipeline = "running",
                          !.tries.run_data_pipeline = @ + 1]
    /\ UNCHANGED <<log, clock, fs, raw_dir, api>>
    /\ UnchangedCalls

\* run_pipeline_for_day has returned or raised: the task succeeds, is put up
\* for a retry, or fails and with it the DAG run
run_data_pipeline_ends ==
    /\ dag # NoDag
    /\ dag.task.run_data_pipeline = "running"
    /\ Ended(Len(run))
    /\ LET raised == run[Len(run)].pc # "done"
           next == IF raised THEN AfterException("run_data_pipeline") ELSE "success"
       IN dag' = [dag EXCEPT
              !.task.run_data_pipeline = next,
              !.task.validate_data_quality =
                  IF next = "failed" THEN "upstream_failed" ELSE @,
              !.error = IF raised THEN run[Len(run)].error ELSE @,
              !.state = IF next = "failed" THEN "failed" ELSE @]
    /\ UNCHANGED <<log, clock, fs, raw_dir, run, api>>
    /\ UnchangedCalls

\* the rows pd.read_parquet(partition_path) returns: those of the files of
\* the directory
GoldPartition(disk, date) ==
    {f \in disk : /\ f.path.layer = "gold"
                  /\ f.path.table = "daily_comfort_metrics"
                  /\ f.path.partition = CalendarDate(date)}

\* validate_data_quality: ValueError when the gold partition of ds does not
\* exist, holds no row, or the list of expected rooms is not there; the three
\* checks only print their findings
quality_error(disk, ds, config) ==
    IF GoldPartition(disk, ds) = {} THEN <<"ValueError", "Gold layer data not found">>
    ELSE IF \A f \in GoldPartition(disk, ds) : f.rows = <<>>
    THEN <<"ValueError", "No data found in gold layer">>
    ELSE IF ~config
    THEN <<"ValueError", "Expected rooms config file not found">>
    ELSE <<>>

validate_data_quality ==
    /\ dag # NoDag
    /\ dag.state = "running"
    /\ dag.task.run_data_pipeline = "success"
    /\ Schedulable("validate_data_quality")
    /\ LET e == quality_error(fs, dag.ds, dag.config)
           tried == [dag EXCEPT !.tries.validate_data_quality = @ + 1]
           next == IF e = <<>> THEN "success"
                   ELSE IF tried.tries.validate_data_quality <= retries
                   THEN "up_for_retry" ELSE "failed"
       IN dag' = [tried EXCEPT
              !.task.validate_data_quality = next,
              !.error = e,
              !.state = IF next = "success" THEN "success"
                        ELSE IF next = "failed" THEN "failed" ELSE @]
    /\ UNCHANGED <<log, clock, fs, raw_dir, run, api>>
    /\ UnchangedCalls

NextDag ==
    \/ generate_sample_data
    \/ run_data_pipeline
    \/ \E r \in DOMAIN run : RunLoad(r)
    \/ \E r \in DOMAIN run : RunTransform(r)
    \/ \E r \in DOMAIN run : RunWriteBronzeIndoor(r)
    \/ \E r \in DOMAIN run : RunWriteBronzeOutdoor(r)
    \/ \E r \in DOMAIN run : RunJoin(r)
    \/ \E r \in DOMAIN run : RunWriteSilver(r)
    \/ \E r \in DOMAIN run : RunGold(r)
    \/ \E r \in DOMAIN run : RunWriteGold(r)
    \/ \E r \in DOMAIN run : RunWriteFails(r)
    \/ Tick
    \/ run_data_pipeline_ends
    \/ validate_data_quality

\* the raw directories a DAG run for day 0 may find
InitDag ==
    /\ InitUnits
    /\ raw_dir \in [indoor : {<<>>, <<RawFile(0, IndoorOf(0))>>,
                              <<RawFile(1, IndoorOf(1))>>},
                    outdoor : {<<>>, <<RawFile(0, OutdoorOf(0))>>}]
    /\ run = <<>>
    /\ dag \in {NewDagRun(0, generate, config) : generate, config \in BOOLEAN}
    /\ api = NoRequests

SpecDag == InitDag /\ [][NextDag]_vars

----------------------------------------------------------------------------
(* Properties of the DAG run *)

DagEnded == dag # NoDag /\ dag.state \in {"success", "failed"}
NoInputData ==
    /\ Glob(raw_dir.indoor, dag.ds) = <<>>
    /\ Glob(raw_dir.outdoor, dag.ds) = <<>>

\* C21: when no input data exists for the target date the DAG run (the
\* pipeline task followed by the data-quality task) ends as a success that
\* wrote nothing: it never ends as a failure, and no task is tried twice.
C21_NoDataIsSuccess ==
    (DagEnded /\ NoInputData) =>
        /\ dag.state = "success"
        /\ fs = {}
        /\ dag.tries.run_data_pipeline = 1
        /\ dag.tries.validate_data_quality = 1

----------------------------------------------------------------------------
(* The query service: load_gold_metrics and the range endpoints *)

\* an Optional[str] parameter: <<>> is None, <<s>> is the string s
None == <<>>
Truthy(opt) == opt # None /\ opt[1] # ""

\* pd.read_parquet(partition_path): the rows of the files of the directory,
\* file after file in the order of the file names
RECURSIVE read_parquet(_)
read_parquet(files) ==
    IF files = {} THEN <<>>
    ELSE LET f == CHOOSE g \in files :
                      \A h \in files : g.path.name[2] <= h.path.name[2]
         IN f.rows \o read_parquet(files \ {f})

\* the range taken without its last day
ReadRange_end_exclusive(disk, current, end_date) ==
    LET days == {d \in current..(end_date - 1) : GoldPartition(disk, d) # {}}
        RECURSIVE Concat(_)
        Concat(D) == IF D = {} THEN <<>>
                     ELSE read_parquet(GoldPartition(disk, SetMin(D)))
                              \o Concat(D \ {SetMin(D)})
    IN Concat(days)

\* the loop of load_gold_metrics followed by pd.concat: the partitions that
\* exist, from current to end_date, day after day.  CalendarDate is exact for
\* the days that hold data; every later day is a date without a partition.
ReadRange(disk, current, end_date) ==
    LET days == {d \in current..end_date : GoldPartition(disk, d) # {}}
        RECURSIVE Concat(_)
        Concat(D) == IF D = {} THEN <<>>
                     ELSE read_parquet(GoldPartition(disk, SetMin(D)))
                              \o Concat(D \ {SetMin(D)})
    IN Concat(days)

\* load_gold_metrics(start_date, end_date, room_id): pd.DataFrame() when no
\* partition was read, else the rows read, those of the room when room_id is
\* neither None nor empty
load_gold_metrics(disk, start_date, end_date, room_id) ==
    LET result == ReadRange(disk, start_date, end_date)
    IN IF Truthy(room_id)
       THEN SelectSeq(result, LAMBDA row : row.room_id = room_id[1])
       ELSE result

\* datetime.strptime(s, '%Y-%m-%d').date() as <<day>>, <<>> for ValueError
strptime(s) ==
    CASE s = "2024-01-31" -> <<0>>
      [] s = "2024-02-01" -> <<1>>
      [] s = "2024-02-02" -> <<2>>
      [] s = "2025-02-01" -> <<367>>
      [] OTHER -> <<>>

\* the handlers of the endpoints: 'except ValueError' answers 400, 'except
\* Exception', which also receives an HTTPException raised inside the try
\* block, answers 500
Handled(exception) ==
    IF exception = "ValueError"
    THEN [status |-> 400, detail |-> "Invalid date format", body |-> <<>>]
    ELSE [status |-> 500, detail |-> "Error processing request", body |-> <<>>]

\* .round(0) of a mean held as <<sum, count>>, half to even
Round0(cell) ==
    IF isna(cell) THEN NaN
    ELSE LET q == cell[1] \div cell[2]
             r == cell[1] % cell[2]
         IN IF 2 * r < cell[2] THEN <<q, 1>>
            ELSE IF 2 * r > cell[2] THEN <<q + 1, 1>>
            ELSE IF q % 2 = 0 THEN <<q, 1>> ELSE <<q + 1, 1>>

OvercoolingRecord(row) ==
    [date |-> CalendarDate(row.date), room_id |-> row.room_id,
     pct_time_overcooled |-> row.pct_time_overcooled,
     n_overcooled |-> row.n_overcooled, n_readings |-> row.n_readings]

StaleAirRecord(row) ==
    [date |-> CalendarDate(row.date), room_id |-> row.room_id,
     pct_time_stale_air |-> row.pct_time_stale_air,
     n_stale_air |-> row.n_stale_air, n_readings |-> row.n_readings,
     avg_indoor_co2 |-> Round0(row.avg_indoor_co2)]

Ok(records) == [status |-> 200, detail |-> "", body |-> records]

\* the limit on the length of the range, in days
MaxRangeDays == 365

\* GET /comfort/overcooling
overcooling_response(disk, start_date, end_date, room_id) ==
    LET start == strptime(start_date)
        end == strptime(end_date)
    IN IF start = <<>> \/ end = <<>> THEN Handled("ValueError")
       ELSE IF start[1] > end[1] THEN Handled("HTTPException")
       ELSE IF end[1] - start[1] > MaxRangeDays THEN Handled("HTTPException")
       ELSE LET df == load_gold_metrics(disk, start[1], end[1], room_id)
            IN Ok([i \in DOMAIN df |-> OvercoolingRecord(df[i])])

\* GET /comfort/stale-air
stale_air_response(disk, start_date, end_date, room_id) ==
    LET start == strptime(start_date)
        end == strptime(end_date)
    IN IF start = <<>> \/ end = <<>> THEN Handled("ValueError")
       ELSE IF start[1] > end[1] THEN Handled("HTTPException")
       ELSE LET df == load_gold_metrics(disk, start[1], end[1], room_id)
            IN Ok([i \in DOMAIN df |-> StaleAirRecord(df[i])])

UnchangedPipeline ==
    UNCHANGED <<pc, indoor_files, outdoor_files, raw_indoor, raw_outdoor,
                bronze_indoor, bronze_outdoor, outdoor_resampled, comfort_df,
                daily_metrics, log, clock, fs, raw_dir, run, dag>>

\* the values a caller passes
DateStrings == {"2024-01-31", "2024-02-01", "2024-02-02", "2025-02-01", "31/01/2024"}
CallDays == {0, 1, 2, 3}
RoomFilters == {None, <<"">>, <<"office_2">>, <<"lab_1">>}

\* The service keeps nothing between two calls, so one call is followed on
\* every disk.
LoadGoldMetrics(start_date, end_date, room_id) ==
    /\ api = NoRequests
    /\ api' = [call |-> "load_gold_metrics", start_date |-> start_date,
               end_date |-> end_date, room_id |-> room_id,
               answer |-> load_gold_metrics(fs, start_date, end_date, room_id)]
    /\ UnchangedPipeline

GetOvercoolingMetrics(start_date, end_date, room_id) ==
    /\ api = NoRequests
    /\ api' = [call |-> "/comfort/overcooling", start_date |-> start_date,
               end_date |-> end_date, room_id |-> room_id,
               answer |-> overcooling_response(fs, start_date, end_date, room_id)]
    /\ UnchangedPipeline

GetStaleAirMetrics(start_date, end_date, room_id) ==
    /\ api = NoRequests
    /\ api' = [call |-> "/comfort/stale-air", start_date |-> start_date,
               end_date |-> end_date, room_id |-> room_id,
               answer |-> stale_air_response(fs, start_date, end_date, room_id)]
    /\ UnchangedPipeline

NextApi ==
    \/ \E s, e \in CallDays : \E room \in RoomFilters : LoadGoldMetrics(s, e, room)
    \/ \E s, e \in DateStrings : \E room \in RoomFilters :
          GetOvercoolingMetrics(s, e, room)
    \/ \E s, e \in DateStrings : \E room \in RoomFilters :
          GetStaleAirMetrics(s, e, room)

\* the gold files one run leaves on disk: the aggregation of a silver frame,
\* written at second now by run by
GoldWrite(codes, now, by) ==
    LET silver == [i \in DOMAIN codes |-> SilverRow(codes[i], i)]
        metrics == metrics_frame([status |-> "ok",
                       columns |-> AggregatedColumns, rows |-> silver])
    IN write_partitioned_parquet(metrics.rows, metrics.columns, "gold",
           "daily_comfort_metrics", {"date"}, now, by)

\* silver frames by the codes of their records: none, one room on one day,
\* two rooms on one day, two days with a day without data between them
ApiCodes == {<<>>, <<0>>, <<1, 6>>, <<0, 20>>, <<2, 5, 16, 23>>}

\* the disk after two runs of the pipeline, one second apart
InitApi ==
    /\ pc = "idle"
    /\ indoor_files = <<>>
    /\ outdoor_files = <<>>
    /\ raw_indoor = <<>>
    /\ raw_outdoor = <<>>
    /\ bronze_indoor = <<>>
    /\ bronze_outdoor = <<>>
    /\ outdoor_resampled = <<>>
    /\ comfort_df = EmptyFrame
    /\ daily_metrics = EmptyFrame
    /\ log = <<>>
    /\ clock = 1
    /\ raw_dir = NoRawFiles
    /\ run = <<>>
    /\ dag = NoDag
    /\ api = NoRequests
    /\ fs \in {to_parquet(to_parquet({}, GoldWrite(c1, 0, 1)), GoldWrite(c2, 1, 2)) :
                  c1, c2 \in ApiCodes}

SpecApi == InitApi /\ [][NextApi]_vars

----------------------------------------------------------------------------
(* Properties of the query service *)

Answered(call) == api # NoRequests /\ api.call = call
NoFilter(room_id) == room_id = None \/ room_id = <<"">>

\* the places <<file, position>> of the gold rows equal to row that the
\* call's range and room filter select
StoredMatches(row) ==
    {<<f, k>> \in UNION {{f} \X DOMAIN f.rows : f \in fs} :
        /\ f.path.layer = "gold"
        /\ f.path.table = "daily_comfort_metrics"
        /\ \E d \in api.start_date..api.end_date : f.path.partition = CalendarDate(d)
        /\ f.rows[k] = row
        /\ NoFilter(api.room_id) \/ row.room_id = api.room_id[1]}

AllGoldRows == UNION {Range(f.rows) : f \in fs}

\* C22: load_gold_metrics(start, end, room) returns exactly the rows stored
\* in the gold partitions of the dates start..end that match the room filter
\* (all rooms when no filter is given, None or the empty string), each as
\* often as it is stored; a date without a partition adds nothing and raises
\* nothing, and the result is empty when the range holds no partition.
C22_RowsOfRange ==
    Answered("load_gold_metrics") =>
        /\ \A row \in AllGoldRows \cup Range(api.answer) :
              Cardinality({i \in DOMAIN api.answer : api.answer[i] = row})
                  = Cardinality(StoredMatches(row))
        /\ (\A d \in api.start_date..api.end_date : GoldPartition(fs, d) = {})
              => api.answer = <<>>

\* a range over three days, the middle one without a partition, filtered to
\* one of the two rooms stored: the rows of that room of both days
C22_Witness ==
    /\ Answered("load_gold_metrics")
    /\ api.start_date = 0
    /\ api.end_date = 2
    /\ api.room_id = <<"office_2">>
    /\ GoldPartition(fs, 0) # {}
    /\ GoldPartition(fs, 1) = {}
    /\ GoldPartition(fs, 2) # {}
    /\ \E i, j \in DOMAIN api.answer : api.answer[i].date = 0 /\ api.answer[j].date = 2
    /\ \E row \in AllGoldRows : row.room_id = "office_1"

\* C27: /comfort/overcooling and /comfort/stale-air answer 400 whenever
\* start_date is later than end_date, /comfort/overcooling also when the
\* range exceeds 365 days; 500 is answered only when loading the data fails
\* (which no call here does).
C27_BadRangeIs400 ==
    (Answered("/comfort/overcooling") \/ Answered("/comfort/stale-air")) =>
        LET start == strptime(api.start_date)
            end == strptime(api.end_date)
        IN /\ (start # <<>> /\ end # <<>> /\ start[1] > end[1])
                  => api.answer.status = 400
           /\ (/\ api.call = "/comfort/overcooling"
               /\ start # <<>> /\ end # <<>>
               /\ end[1] - start[1] > 365)
                  => api.answer.status = 400
           /\ api.answer.status # 500

====
